---- MODULE Spec2Model ----
(***************************************************************************)
(* Model of the identity and access-control core of social_media_backend   *)
(* (users/views.py, users/serializers.py, users/models.py,                 *)
(* users/validators.py, users/social_auth.py).                             *)
(*                                                                         *)
(* The persistent store is the state; every HTTP handler is an action that *)
(* reads the request's inputs (\E over small sets), changes the store as   *)
(* the handler does and leaves the HTTP answer in resp.  Request bodies    *)
(* are taken to pass field-level deserialization (a comment has a text, a  *)
(* PUT of a post has a content); throttling is configured off as in        *)
(* config/settings_test.py.  Fields of resp whose name starts with pre_ or *)
(* req are history kept for the properties, not part of the HTTP answer.   *)
(***************************************************************************)
EXTENDS Integers, Sequences, FiniteSets, TLC

\* ----------------------------------------------------------------- bounds
MaxPosts == 2
MaxLikeRows == 2
MaxComments == 1
MaxLikeReqs == 3
MaxFiles == 2
MaxMedia == 2

\* ------------------------------------------------------------ value sets
Privacies == {"public", "private"}
Contents == {"c1", "c2"}
Texts == {"t1"}
Absent == "<absent>"
SAFE_METHODS == {"GET", "HEAD", "OPTIONS"}

VARIABLES
    accounts,        \* CustomUser rows
    profiles,        \* Profile rows
    socialAccounts,  \* allauth SocialAccount rows
    posts,           \* Post rows
    comments,        \* Comment rows
    likes,           \* Like rows
    media,           \* Media rows
    nextUserId, nextPostId, nextCommentId, nextLikeId, nextMediaId,
    likeReqs,        \* like requests in flight (concurrent specification)
    settings,        \* django.conf.settings read by the validators
    jwt,             \* simplejwt: tokens issued, blacklisted jti, the clock
    authReqs,        \* registrations and social logins in flight (concurrent specification)
    resp             \* the answer to the last completed request

vars == <<accounts, profiles, socialAccounts, posts, comments, likes, media,
          nextUserId, nextPostId, nextCommentId, nextLikeId, nextMediaId,
          likeReqs, settings, jwt, authReqs, resp>>

\* No token issued, none blacklisted, the clock at its origin.
NoTokens == [issued |-> {}, blacklisted |-> {}, now |-> 0, nextJti |-> 1]

\* ------------------------------------------------------------- accounts
Email(local, domain) == [local |-> local, domain |-> domain]

\* An email that is None or empty: "not email" holds of it.
NoEmail == Email("", "")

\* make_password / check_password: a salted hash, opaque but for equality.
UNUSABLE_PASSWORD == [hash_of |-> "!"]

make_password(password) ==
    IF password = Absent THEN UNUSABLE_PASSWORD ELSE [hash_of |-> password]

check_password(account, password) ==
    /\ account.password # UNUSABLE_PASSWORD
    /\ account.password = [hash_of |-> password]

\* BaseUserManager.normalize_email: lower-cases the domain part only.
LowerDomain(d) == IF d = "EXAMPLE.COM" THEN "example.com" ELSE d

normalize_email(email) == Email(email.local, LowerDomain(email.domain))

SeedAccount(id, local, staff) ==
    [id |-> id, email |-> Email(local, "example.com"),
     password |-> make_password("pw1"), is_staff |-> staff,
     first_name |-> "", last_name |-> ""]

SeedAccounts ==
    {SeedAccount(1, "a", FALSE), SeedAccount(2, "b", FALSE), SeedAccount(3, "s", TRUE)}

SeedProfiles == {[user |-> a.id, display_name |-> a.email.local, bio |-> ""] : a \in SeedAccounts}

AccountById(id) == CHOOSE a \in accounts : a.id = id

\* ---------------------------------------------------- object permissions
IsOwnerOrReadOnly_has_object_permission_StaffOverride(method, obj, user) ==
    IF method \in SAFE_METHODS THEN TRUE ELSE obj.author = user.id \/ user.is_staff

IsOwnerOrReadOnly_has_object_permission_ParentAuthor(method, obj, user) ==
    IF method \in SAFE_METHODS THEN TRUE
    ELSE \/ obj.author = user.id
         \/ "post" \in DOMAIN obj /\ \E p \in posts : p.id = obj.post /\ p.author = user.id

IsOwnerOrReadOnly_has_object_permission(method, obj, user) ==
    IF method \in SAFE_METHODS THEN TRUE ELSE obj.author = user.id

\* ----------------------------------------------------------- PostViewSet
PostViewSet_get_queryset_NoFilter(user) == posts

PostViewSet_get_queryset(user) ==
    IF user.is_staff THEN posts
    ELSE {p \in posts : p.privacy = "public" \/ p.author = user.id}

NoObj == [id |-> 0]

\* GenericAPIView.get_object: get_object_or_404 on the filtered queryset,
\* then check_object_permissions (403 for an authenticated principal).
get_object(queryset, pk, method, user, owner_checked) ==
    LET found == {o \in queryset : o.id = pk} IN
    IF found = {} THEN [status |-> 404, obj |-> NoObj]
    ELSE LET o == CHOOSE x \in found : TRUE IN
         IF owner_checked /\ ~IsOwnerOrReadOnly_has_object_permission(method, o, user)
         THEN [status |-> 403, obj |-> o]
         ELSE [status |-> 200, obj |-> o]

NotFound(op, user, pk, detail) ==
    [op |-> op, user |-> user.id, post |-> pk, status |-> 404, detail |-> detail]

Forbidden(op, user, pk) ==
    [op |-> op, user |-> user.id, post |-> pk, status |-> 403,
     detail |-> "You do not have permission to perform this action."]

NO_POST_MATCHES == "No Post matches the given query."

\* on_delete=CASCADE of Comment.parent: the ids deleted along with ids.
RECURSIVE CascadeComments(_, _)
CascadeComments(rows, ids) ==
    LET replies == {c.id : c \in {r \in rows : r.parent \in ids}} IN
    IF replies \subseteq ids THEN ids ELSE CascadeComments(rows, ids \cup replies)

\* on_delete=CASCADE of Comment.post, Like.post, Media.post
CascadeDeletePost(pk) ==
    /\ comments' = {c \in comments :
                       c.id \notin CascadeComments(comments,
                                                   {r.id : r \in {x \in comments : x.post = pk}})}
    /\ likes' = {l \in likes : l.post # pk}
    /\ media' = {m \in media : m.post # pk}

PostViewSet_list(user) ==
    /\ resp' = [op |-> "list", user |-> user.id, status |-> 200,
                results |-> PostViewSet_get_queryset(user)]
    /\ UNCHANGED <<accounts, profiles, socialAccounts, posts, comments, likes, media,
                   nextUserId, nextPostId, nextCommentId, nextLikeId, nextMediaId,
                   likeReqs, settings, jwt, authReqs>>

PostViewSet_retrieve(user, pk) ==
    /\ LET r == get_object(PostViewSet_get_queryset(user), pk, "GET", user, TRUE) IN
       resp' = IF r.status = 404 THEN NotFound("retrieve", user, pk, NO_POST_MATCHES)
               ELSE [op |-> "retrieve", user |-> user.id, post |-> pk, status |-> 200,
                     data |-> r.obj]
    /\ UNCHANGED <<accounts, profiles, socialAccounts, posts, comments, likes, media,
                   nextUserId, nextPostId, nextCommentId, nextLikeId, nextMediaId,
                   likeReqs, settings, jwt, authReqs>>

\* PostViewSet.create -> PostSerializer.create
PostViewSet_create(user, privacy, content) ==
    /\ nextPostId <= MaxPosts
    /\ LET post == [id |-> nextPostId, author |-> user.id, privacy |-> privacy,
                    content |-> content] IN
       /\ posts' = posts \cup {post}
       /\ resp' = [op |-> "create", user |-> user.id, post |-> post.id, status |-> 201,
                   data |-> post, message |-> "Post created successfully"]
    /\ nextPostId' = nextPostId + 1
    /\ UNCHANGED <<accounts, profiles, socialAccounts, comments, likes, media,
                   nextUserId, nextCommentId, nextLikeId, nextMediaId,
                   likeReqs, settings, jwt, authReqs>>

\* PostSerializer.update: setattr for every supplied field, then save.
PostSerializer_update(instance, data) ==
    [instance EXCEPT
        !.privacy = IF data.privacy = Absent THEN @ ELSE data.privacy,
        !.content = IF data.content = Absent THEN @ ELSE data.content]

UpdateData == [privacy : Privacies \cup {Absent}, content : Contents \cup {Absent}]

\* PostViewSet.update / partial_update: a PUT carries the content, a PATCH
\* any subset of the fields; both are unsafe methods.
PostViewSet_update(user, pk, data) ==
    /\ LET method == IF data.content = Absent THEN "PATCH" ELSE "PUT"
           r == get_object(PostViewSet_get_queryset(user), pk, method, user, TRUE) IN
       IF r.status = 404
       THEN /\ resp' = NotFound("update", user, pk, NO_POST_MATCHES)
            /\ UNCHANGED posts
       ELSE IF r.status = 403
       THEN /\ resp' = Forbidden("update", user, pk)
            /\ UNCHANGED posts
       ELSE LET new == PostSerializer_update(r.obj, data) IN
            /\ posts' = (posts \ {r.obj}) \cup {new}
            /\ resp' = [op |-> "update", user |-> user.id, post |-> pk, status |-> 200,
                        data |-> new, message |-> "Post updated successfully"]
    /\ UNCHANGED <<accounts, profiles, socialAccounts, comments, likes, media,
                   nextUserId, nextPostId, nextCommentId, nextLikeId, nextMediaId,
                   likeReqs, settings, jwt, authReqs>>

\* ModelViewSet.destroy
PostViewSet_destroy(user, pk) ==
    /\ LET r == get_object(PostViewSet_get_queryset(user), pk, "DELETE", user, TRUE) IN
       IF r.status = 404
       THEN /\ resp' = NotFound("destroy", user, pk, NO_POST_MATCHES)
            /\ UNCHANGED <<posts, comments, likes, media>>
       ELSE IF r.status = 403
       THEN /\ resp' = Forbidden("destroy", user, pk)
            /\ UNCHANGED <<posts, comments, likes, media>>
       ELSE /\ posts' = posts \ {r.obj}
            /\ CascadeDeletePost(pk)
            /\ resp' = [op |-> "destroy", user |-> user.id, post |-> pk, status |-> 204]
    /\ UNCHANGED <<accounts, profiles, socialAccounts,
                   nextUserId, nextPostId, nextCommentId, nextLikeId, nextMediaId,
                   likeReqs, settings, jwt, authReqs>>

\* ------------------------------------------------------ PostViewSet.like
Like_get(rows, post, user) == {l \in rows : l.post = post /\ l.user = user}

\* post.likes.count()
likes_count(rows, pk) == Cardinality({l \in rows : l.post = pk})

\* Model.delete(): DELETE ... WHERE id = pk; no error when the row is gone.
Like_delete_Noop(rows, like) == rows

Like_delete(rows, like) == {l \in rows : l.id # like.id}

LikePairs(rows) == {<<l.post, l.user>> : l \in rows}

\* The whole handler run without interleaving: get_object, get_or_create,
\* delete when the row was there, count.
PostViewSet_like(user, pk) ==
    /\ LET r == get_object(PostViewSet_get_queryset(user), pk, "POST", user, FALSE)
           existing == Like_get(likes, pk, user.id)
       IN
       IF r.status = 404
       THEN /\ resp' = NotFound("like", user, pk, NO_POST_MATCHES)
            /\ UNCHANGED <<likes, nextLikeId>>
       ELSE IF existing = {}
       THEN /\ nextLikeId <= MaxLikeRows
            /\ likes' = likes \cup {[id |-> nextLikeId, post |-> pk, user |-> user.id]}
            /\ nextLikeId' = nextLikeId + 1
            /\ resp' = [op |-> "like", user |-> user.id, post |-> pk, status |-> 200,
                        liked |-> TRUE, likes_count |-> likes_count(likes', pk),
                        message |-> "Post liked", pre_pairs |-> LikePairs(likes)]
       ELSE /\ likes' = Like_delete(likes, CHOOSE l \in existing : TRUE)
            /\ UNCHANGED nextLikeId
            /\ resp' = [op |-> "like", user |-> user.id, post |-> pk, status |-> 200,
                        liked |-> FALSE, likes_count |-> likes_count(likes', pk),
                        message |-> "Like removed", pre_pairs |-> LikePairs(likes)]
    /\ UNCHANGED <<accounts, profiles, socialAccounts, posts, comments, media,
                   nextUserId, nextPostId, nextCommentId, nextMediaId,
                   likeReqs, settings, jwt, authReqs>>

\* -------------------------------------------------------- CommentViewSet
POST_NOT_FOUND == "Post not found"

\* The guard of perform_create: Post.objects.get(id=post_id) over all posts,
\* then the privacy rule; TRUE when Http404 is raised.
CommentViewSet_perform_create_Http404_NoPrivacy(user, post_pk) ==
    {p \in posts : p.id = post_pk} = {}

CommentViewSet_perform_create_Http404(user, post_pk) ==
    LET found == {p \in posts : p.id = post_pk} IN
    \/ found = {}
    \/ \E post \in found : post.privacy = "private" /\ post.author # user.id

\* CommentViewSet.create: parent is 0 for a top-level comment, else the id
\* of an existing comment.
CommentViewSet_create(user, post_pk, text, parent) ==
    /\ parent = 0 \/ \E c \in comments : c.id = parent
    /\ IF CommentViewSet_perform_create_Http404(user, post_pk)
       THEN /\ resp' = NotFound("comment_create", user, post_pk, POST_NOT_FOUND)
            /\ UNCHANGED <<comments, nextCommentId>>
       ELSE /\ nextCommentId <= MaxComments
            /\ LET c == [id |-> nextCommentId, post |-> post_pk, author |-> user.id,
                         text |-> text, parent |-> parent] IN
               /\ comments' = comments \cup {c}
               /\ resp' = [op |-> "comment_create", user |-> user.id, post |-> post_pk,
                           status |-> 201, data |-> c]
            /\ nextCommentId' = nextCommentId + 1
    /\ UNCHANGED <<accounts, profiles, socialAccounts, posts, likes, media,
                   nextUserId, nextPostId, nextLikeId, nextMediaId,
                   likeReqs, settings, jwt, authReqs>>

\* CommentViewSet.get_queryset
CommentViewSet_get_queryset_VisibleOnly(user, post_pk) ==
    {c \in comments : c.post = post_pk
                      /\ \E p \in PostViewSet_get_queryset(user) : p.id = post_pk}

CommentViewSet_get_queryset(user, post_pk) == {c \in comments : c.post = post_pk}

CommentStoreUnchanged ==
    UNCHANGED <<accounts, profiles, socialAccounts, posts, likes, media,
                nextUserId, nextPostId, nextCommentId, nextLikeId, nextMediaId,
                likeReqs, settings, jwt, authReqs>>

\* CommentViewSet.list
CommentViewSet_list(user, post_pk) ==
    /\ resp' = [op |-> "comment_list", user |-> user.id, post |-> post_pk,
                status |-> 200, results |-> CommentViewSet_get_queryset(user, post_pk)]
    /\ UNCHANGED comments
    /\ CommentStoreUnchanged

NO_COMMENT_MATCHES == "No Comment matches the given query."
PERMISSION_DENIED == "You do not have permission to perform this action."

\* The answer to a request on comment pk under post post_pk.
CommentAnswer(op, user, post_pk, pk, status, body) ==
    [op |-> op, user |-> user.id, post |-> post_pk, comment |-> pk,
     status |-> status, body |-> body]

\* CommentViewSet.update / partial_update: text is the only writable field
\* sent.
CommentViewSet_update(user, post_pk, pk, text) ==
    /\ LET r == get_object(CommentViewSet_get_queryset(user, post_pk), pk, "PUT", user, TRUE)
       IN
       IF r.status = 404
       THEN /\ resp' = CommentAnswer("comment_update", user, post_pk, pk, 404, [detail |-> NO_COMMENT_MATCHES])
            /\ UNCHANGED comments
       ELSE IF r.status = 403
       THEN /\ resp' = CommentAnswer("comment_update", user, post_pk, pk, 403, [detail |-> PERMISSION_DENIED])
            /\ UNCHANGED comments
       ELSE /\ comments' = (comments \ {r.obj}) \cup {[r.obj EXCEPT !.text = text]}
            /\ resp' = CommentAnswer("comment_update", user, post_pk, pk, 200,
                                      [r.obj EXCEPT !.text = text])
    /\ CommentStoreUnchanged

\* CommentViewSet.destroy
CommentViewSet_destroy(user, post_pk, pk) ==
    /\ LET r == get_object(CommentViewSet_get_queryset(user, post_pk), pk, "DELETE", user, TRUE)
       IN
       IF r.status = 404
       THEN /\ resp' = CommentAnswer("comment_destroy", user, post_pk, pk, 404, [detail |-> NO_COMMENT_MATCHES])
            /\ UNCHANGED comments
       ELSE IF r.status = 403
       THEN /\ resp' = CommentAnswer("comment_destroy", user, post_pk, pk, 403, [detail |-> PERMISSION_DENIED])
            /\ UNCHANGED comments
       ELSE /\ comments' = {c \in comments : c.id \notin CascadeComments(comments, {pk})}
            /\ resp' = CommentAnswer("comment_destroy", user, post_pk, pk, 204, [empty |-> TRUE])
    /\ CommentStoreUnchanged

\* ------------------------------------------------------------- media
MEDIA_MAX_SIZE == 5 * 1024 * 1024

None == "<None>"

\* ctype.startswith('image/') over the content types of the model
IsImageType(ctype) == ctype \in {"image/png", "image/jpeg", "image/gif"}

\* An uploaded file: its name, size and declared content type, whether
\* Pillow can open and verify it, and the dimensions Pillow reads.
UploadedFile(name, size, ctype, decodes) ==
    [name |-> name, size |-> size, content_type |-> ctype, decodes |-> decodes,
     width |-> IF decodes THEN 10 ELSE 0, height |-> IF decodes THEN 10 ELSE 0]

ValidationError(message) == [ok |-> FALSE, error |-> message]

validate_media_file_SkipsDecode(f) ==
    LET max_size == settings.MEDIA_MAX_SIZE
        allowed == settings.MEDIA_ALLOWED_CONTENT_TYPES
    IN
    IF f.size = 0 THEN ValidationError("Empty file upload is not allowed")
    ELSE IF f.size > max_size THEN ValidationError("File exceeds maximum size")
    ELSE IF allowed # {} /\ f.content_type \notin allowed
    THEN ValidationError("Unsupported content type")
    ELSE [ok |-> TRUE,
          meta |-> [content_type |-> f.content_type, size |-> f.size,
                    width |-> IF IsImageType(f.content_type) THEN f.width ELSE None,
                    height |-> IF IsImageType(f.content_type) THEN f.height ELSE None]]

validate_media_file(f) ==
    LET max_size == settings.MEDIA_MAX_SIZE
        allowed == settings.MEDIA_ALLOWED_CONTENT_TYPES
    IN
    IF f.size = 0 THEN ValidationError("Empty file upload is not allowed")
    ELSE IF f.size > max_size THEN ValidationError("File exceeds maximum size")
    ELSE IF allowed # {} /\ f.content_type \notin allowed
    THEN ValidationError("Unsupported content type")
    ELSE IF IsImageType(f.content_type) /\ ~f.decodes
    THEN ValidationError("Invalid image file")
    ELSE [ok |-> TRUE,
          meta |-> [content_type |-> f.content_type, size |-> f.size,
                    width |-> IF IsImageType(f.content_type) THEN f.width ELSE None,
                    height |-> IF IsImageType(f.content_type) THEN f.height ELSE None]]

\* Media.objects.create(post_id=..., file=f, uploaded_by=request.user, **meta)
MediaRow(id, post_id, f, user, meta) ==
    [id |-> id, post |-> post_id, file |-> f.name, uploaded_by |-> user.id,
     content_type |-> meta.content_type, size |-> meta.size,
     width |-> meta.width, height |-> meta.height]

\* The for loop of MediaBatchUploadView.post over the files left, acc holding
\* the Media table, the next id, created and errors so far.
RECURSIVE batch_loop_AbortOnError(_, _, _, _)
batch_loop_AbortOnError(files, post_id, user, acc) ==
    IF files = <<>> THEN acc
    ELSE LET f == Head(files)
             v == validate_media_file(f)
         IN
         IF v.ok
         THEN LET row == MediaRow(acc.next, post_id, f, user, v.meta) IN
              batch_loop_AbortOnError(Tail(files), post_id, user,
                  [acc EXCEPT !.rows = @ \cup {row}, !.next = @ + 1,
                              !.created = Append(@, row)])
         ELSE [acc EXCEPT !.errors = Append(@, [filename |-> f.name, error |-> v.error])]

RECURSIVE batch_loop(_, _, _, _)
batch_loop(files, post_id, user, acc) ==
    IF files = <<>> THEN acc
    ELSE LET f == Head(files)
             v == validate_media_file(f)
         IN
         IF v.ok
         THEN LET row == MediaRow(acc.next, post_id, f, user, v.meta) IN
              batch_loop(Tail(files), post_id, user,
                  [acc EXCEPT !.rows = @ \cup {row}, !.next = @ + 1,
                              !.created = Append(@, row)])
         ELSE batch_loop(Tail(files), post_id, user,
                  [acc EXCEPT !.errors = Append(@, [filename |-> f.name,
                                                    error |-> v.error])])

\* status_code = HTTP_207_MULTI_STATUS if errors else HTTP_201_CREATED
batch_status_code_HardFailure(created, errors) ==
    IF created = <<>> THEN 400 ELSE IF errors # <<>> THEN 207 ELSE 201

batch_status_code(created, errors) == IF errors # <<>> THEN 207 ELSE 201

\* The guard at the head of MediaBatchUploadView.post; TRUE when Http404 is raised.
MediaBatchUploadView_post_Http404(user, post_pk) ==
    LET found == {p \in posts : p.id = post_pk} IN
    \/ found = {}
    \/ \E post \in found : post.privacy = "private" /\ post.author # user.id

MediaBatchUploadView_post(user, post_pk, files) ==
    /\ IF MediaBatchUploadView_post_Http404(user, post_pk)
       THEN /\ resp' = [op |-> "media_batch", user |-> user.id, post |-> post_pk,
                        status |-> 404, detail |-> POST_NOT_FOUND, req_files |-> files]
            /\ UNCHANGED <<media, nextMediaId>>
       ELSE IF files = <<>>
       THEN /\ resp' = [op |-> "media_batch", user |-> user.id, post |-> post_pk,
                        status |-> 400, error |-> "No files provided", req_files |-> files]
            /\ UNCHANGED <<media, nextMediaId>>
       ELSE LET out == batch_loop(files, post_pk, user,
                           [rows |-> media, next |-> nextMediaId,
                            created |-> <<>>, errors |-> <<>>])
            IN
            /\ out.next - 1 <= MaxMedia
            /\ media' = out.rows
            /\ nextMediaId' = out.next
            /\ resp' = [op |-> "media_batch", user |-> user.id, post |-> post_pk,
                        status |-> batch_status_code(out.created, out.errors),
                        created |-> out.created, errors |-> out.errors,
                        req_files |-> files]
    /\ UNCHANGED <<accounts, profiles, socialAccounts, posts, comments, likes,
                   nextUserId, nextPostId, nextCommentId, nextLikeId,
                   likeReqs, settings, jwt, authReqs>>

\* The files of the batch requests: an image that passes validation, an
\* oversize text file and an image that does not decode.
BatchFiles ==
    {UploadedFile("img.png", 70, "image/png", TRUE),
     UploadedFile("big.txt", MEDIA_MAX_SIZE + 1, "text/plain", FALSE),
     UploadedFile("bad.png", 10, "image/png", FALSE)}

SeqsUpTo(S, n) == UNION {[1..k -> S] : k \in 0..n}

MediaStoreUnchanged ==
    UNCHANGED <<accounts, profiles, socialAccounts, posts, comments, likes,
                nextUserId, nextPostId, nextCommentId, nextLikeId,
                likeReqs, settings, jwt, authReqs>>

\* The guard of MediaUploadView.perform_create; TRUE when Http404 is raised.
MediaUploadView_perform_create_Http404(user, post_pk) ==
    LET found == {p \in posts : p.id = post_pk} IN
    \/ found = {}
    \/ \E post \in found : post.privacy = "private" /\ post.author # user.id

\* MediaUploadView.post: serializer.is_valid (the FileField refuses an
\* empty file), perform_create, MediaSerializer.create.
MediaUploadView_post(user, post_pk, f) ==
    /\ LET v == validate_media_file(f) IN
       IF f.size = 0
       THEN /\ resp' = [op |-> "media_upload", user |-> user.id, post |-> post_pk,
                        status |-> 400, req_file |-> f,
                        body |-> [file |-> "The submitted file is empty."]]
            /\ UNCHANGED <<media, nextMediaId>>
       ELSE IF MediaUploadView_perform_create_Http404(user, post_pk)
       THEN /\ resp' = [op |-> "media_upload", user |-> user.id, post |-> post_pk,
                        status |-> 404, req_file |-> f,
                        body |-> [detail |-> POST_NOT_FOUND]]
            /\ UNCHANGED <<media, nextMediaId>>
       ELSE IF ~v.ok
       THEN /\ resp' = [op |-> "media_upload", user |-> user.id, post |-> post_pk,
                        status |-> 400, req_file |-> f, body |-> [file |-> v.error]]
            /\ UNCHANGED <<media, nextMediaId>>
       ELSE /\ nextMediaId <= MaxMedia
            /\ media' = media \cup {MediaRow(nextMediaId, post_pk, f, user, v.meta)}
            /\ nextMediaId' = nextMediaId + 1
            /\ resp' = [op |-> "media_upload", user |-> user.id, post |-> post_pk,
                        status |-> 201, req_file |-> f,
                        body |-> MediaRow(nextMediaId, post_pk, f, user, v.meta)]
    /\ MediaStoreUnchanged

NO_MEDIA_MATCHES == "No Media matches the given query."
MEDIA_NOT_FOUND == "Media not found"

\* MediaDetailView.get_object: the row of the post's media with that pk,
\* 404 unless the requester is the post's author or the uploader.
MediaDetailView_get_object_NoOwnerCheck(user, post_pk, pk) ==
    LET found == {m \in media : m.post = post_pk /\ m.id = pk} IN
    IF found = {} THEN [status |-> 404, detail |-> NO_MEDIA_MATCHES]
    ELSE [status |-> 200, obj |-> CHOOSE m \in found : TRUE]

MediaDetailView_get_object(user, post_pk, pk) ==
    LET found == {m \in media : m.post = post_pk /\ m.id = pk} IN
    IF found = {} THEN [status |-> 404, detail |-> NO_MEDIA_MATCHES]
    ELSE LET obj == CHOOSE m \in found : TRUE
             post == CHOOSE p \in posts : p.id = obj.post
         IN
         IF post.author # user.id /\ obj.uploaded_by # user.id
         THEN [status |-> 404, detail |-> MEDIA_NOT_FOUND]
         ELSE [status |-> 200, obj |-> obj]

MediaAnswer(op, user, post_pk, pk, status, body) ==
    [op |-> op, user |-> user.id, post |-> post_pk, media |-> pk,
     status |-> status, body |-> body]

\* MediaDetailView.get
MediaDetailView_get(user, post_pk, pk) ==
    /\ LET r == MediaDetailView_get_object(user, post_pk, pk) IN
       IF r.status = 404
       THEN resp' = MediaAnswer("media_get", user, post_pk, pk, 404, [detail |-> r.detail])
       ELSE resp' = MediaAnswer("media_get", user, post_pk, pk, 200, r.obj)
    /\ UNCHANGED <<media, nextMediaId>>
    /\ MediaStoreUnchanged

\* MediaDetailView.delete
MediaDetailView_delete(user, post_pk, pk) ==
    /\ LET r == MediaDetailView_get_object(user, post_pk, pk) IN
       IF r.status = 404
       THEN /\ resp' = MediaAnswer("media_delete", user, post_pk, pk, 404,
                                   [detail |-> r.detail])
            /\ UNCHANGED media
       ELSE /\ media' = media \ {r.obj}
            /\ resp' = MediaAnswer("media_delete", user, post_pk, pk, 204,
                                   [message |-> "Media deleted successfully"])
    /\ UNCHANGED nextMediaId
    /\ MediaStoreUnchanged

\* ------------------------------------------------- registration, tokens
\* The result of a store operation that may raise.
Raise(exc) == [error |-> exc]
NoError == "<none>"

create_user_NoUniqueConstraint(rows, nid, email, password, first_name, last_name) ==
    IF email = [local |-> "", domain |-> ""] THEN [error |-> "ValueError"]
    ELSE [error |-> "<none>",
          user |-> [id |-> nid,
                    email |-> [local |-> email.local,
                               domain |-> IF email.domain = "EXAMPLE.COM"
                                          THEN "example.com" ELSE email.domain],
                    password |-> make_password(password),
                    is_staff |-> FALSE, first_name |-> first_name,
                    last_name |-> last_name]]

\* CustomUserManager.create_user against the table rows with the next id nid:
\* the email is normalized, the password hashed, and user.save() is refused
\* by the UNIQUE constraint on email.
create_user(rows, nid, email, password, first_name, last_name) ==
    IF email = NoEmail THEN Raise("ValueError")
    ELSE LET e == normalize_email(email) IN
         IF \E a \in rows : a.email = e THEN Raise("IntegrityError")
         ELSE [error |-> NoError,
               user |-> [id |-> nid, email |-> e, password |-> make_password(password),
                         is_staff |-> FALSE, first_name |-> first_name,
                         last_name |-> last_name]]

\* The UniqueValidator that ModelSerializer puts on the unique email field:
\* an exact lookup of the value as submitted.
UniqueValidator_email(email) == \E a \in accounts : a.email = email

\* UserRegistrationSerializer.validate
UserRegistrationSerializer_validate(attrs) == attrs.password = attrs.password_confirm

\* display_name or user.email.split('@')[0]
Registration_display_name_NoFallback(display_name, user) ==
    IF display_name = Absent THEN "" ELSE display_name

Registration_display_name(display_name, user) ==
    IF display_name = Absent THEN user.email.local ELSE display_name

\* RefreshToken.for_user(user) and its access_token
RefreshToken_for_user(user) ==
    [refresh |-> [token_type |-> "refresh", user_id |-> user.id],
     access |-> [token_type |-> "access", user_id |-> user.id]]

\* UserSerializer.get_profile answering None
NoProfileData == [is_none |-> TRUE]

\* UserSerializer(user).data over the profile table given
UserSerializer_data(user, profile_rows) ==
    LET mine == {p \in profile_rows : p.user = user.id} IN
    [id |-> user.id, email |-> user.email,
     profile |-> IF mine = {} THEN NoProfileData
                 ELSE LET p == CHOOSE x \in mine : TRUE IN
                      [display_name |-> p.display_name, bio |-> p.bio]]

\* The emails of the registration and social login requests.
AuthEmails ==
    {Email("a", "example.com"), Email("a", "EXAMPLE.COM"), Email("b", "example.com")}

RegisterData ==
    [email : AuthEmails,
     password : {"pw1", "pw2"},
     password_confirm : {"pw1", "pw2"},
     display_name : {Absent, "Dn"}]

\* RegisterView.create -> UserRegistrationSerializer.create
RegisterView_create(data) ==
    /\ IF UniqueValidator_email(data.email) \/ ~UserRegistrationSerializer_validate(data)
       THEN /\ resp' = [op |-> "register", status |-> 400, req |-> data]
            /\ UNCHANGED <<accounts, profiles, nextUserId>>
       ELSE LET made == create_user(accounts, nextUserId, data.email, data.password, "", "") IN
            IF made.error # NoError
            THEN /\ resp' = [op |-> "register", status |-> 500, detail |-> made.error,
                             req |-> data]
                 /\ UNCHANGED <<accounts, profiles, nextUserId>>
            ELSE /\ accounts' = accounts \cup {made.user}
                 /\ nextUserId' = nextUserId + 1
                 /\ profiles' = profiles \cup
                        {[user |-> made.user.id,
                          display_name |-> Registration_display_name(data.display_name, made.user),
                          bio |-> ""]}
                 /\ resp' = [op |-> "register", status |-> 201,
                             user |-> UserSerializer_data(made.user, profiles'),
                             tokens |-> RefreshToken_for_user(made.user), req |-> data]
    /\ UNCHANGED <<socialAccounts, posts, comments, likes, media,
                   nextPostId, nextCommentId, nextLikeId, nextMediaId,
                   likeReqs, settings, jwt, authReqs>>

\* ----------------------------------------------------------- social login
\* f"{first_name} {last_name}".strip() over the names the provider sends
FullNameStripped(first_name, last_name) ==
    IF first_name = "" THEN last_name
    ELSE IF last_name = "" THEN first_name
    ELSE IF first_name = "Ann" /\ last_name = "Lee" THEN "Ann Lee"
    ELSE "<first> <last>"

\* The display name of create_user_from_google
Google_display_name_NoFirstLast(info) ==
    IF info.name # "" THEN info.name ELSE info.email.local

Google_display_name(info) ==
    IF info.name # "" THEN info.name
    ELSE IF FullNameStripped(info.given_name, info.family_name) # ""
    THEN FullNameStripped(info.given_name, info.family_name)
    ELSE info.email.local

Store(acc, prof, soc, nid) ==
    [accounts |-> acc, profiles |-> prof, socialAccounts |-> soc, nextUserId |-> nid]

\* create_user_from_google: the user, its SocialAccount, its Profile when
\* the user has none.
create_user_from_google(info) ==
    LET made == create_user(accounts, nextUserId, info.email, Absent,
                            info.given_name, info.family_name)
    IN
    IF made.error # NoError THEN made
    ELSE LET user == made.user
             has_profile == \E p \in profiles : p.user = user.id
         IN
         [error |-> NoError, user |-> user,
          store |-> Store(accounts \cup {user},
                          IF has_profile THEN profiles
                          ELSE profiles \cup {[user |-> user.id,
                                               display_name |-> Google_display_name(info),
                                               bio |-> ""]},
                          socialAccounts \cup
                              {[user |-> user.id, provider |-> "google", uid |-> info.id]},
                          nextUserId + 1)]

get_or_create_user_from_google_EmailFirst(info) ==
    IF info.email = NoEmail \/ info.id = Absent THEN Raise("ValueError")
    ELSE LET linked == {sa \in socialAccounts : sa.provider = "google" /\ sa.uid = info.id}
             by_email == {a \in accounts : a.email = info.email}
         IN
         IF by_email # {}
         THEN LET user == CHOOSE a \in by_email : TRUE IN
              [error |-> NoError, created |-> FALSE, user |-> user,
               store |-> Store(accounts, profiles,
                               (socialAccounts \ linked) \cup
                                   {[user |-> user.id, provider |-> "google",
                                     uid |-> info.id]},
                               nextUserId)]
         ELSE IF linked # {}
         THEN [error |-> NoError, created |-> FALSE,
               user |-> AccountById((CHOOSE sa \in linked : TRUE).user),
               store |-> Store(accounts, profiles, socialAccounts, nextUserId)]
         ELSE LET made == create_user_from_google(info) IN
              IF made.error # NoError THEN made
              ELSE [error |-> NoError, created |-> TRUE, user |-> made.user,
                    store |-> made.store]

get_or_create_user_from_google_NoEmailLink(info) ==
    IF info.email = NoEmail \/ info.id = Absent THEN Raise("ValueError")
    ELSE LET linked == {sa \in socialAccounts : sa.provider = "google" /\ sa.uid = info.id}
         IN
         IF linked # {}
         THEN [error |-> NoError, created |-> FALSE,
               user |-> AccountById((CHOOSE sa \in linked : TRUE).user),
               store |-> Store(accounts, profiles, socialAccounts, nextUserId)]
         ELSE LET made == create_user_from_google(info) IN
              IF made.error # NoError THEN made
              ELSE [error |-> NoError, created |-> TRUE, user |-> made.user,
                    store |-> made.store]

\* get_or_create_user_from_google: by (provider, uid), then by email with a
\* new SocialAccount, then a new user; (user, created) or the exception.
get_or_create_user_from_google(info) ==
    IF info.email = NoEmail \/ info.id = Absent THEN Raise("ValueError")
    ELSE LET linked == {sa \in socialAccounts : sa.provider = "google" /\ sa.uid = info.id}
             by_email == {a \in accounts : a.email = info.email}
         IN
         IF linked # {}
         THEN [error |-> NoError, created |-> FALSE,
               user |-> AccountById((CHOOSE sa \in linked : TRUE).user),
               store |-> Store(accounts, profiles, socialAccounts, nextUserId)]
         ELSE IF by_email # {}
         THEN LET user == CHOOSE a \in by_email : TRUE IN
              [error |-> NoError, created |-> FALSE, user |-> user,
               store |-> Store(accounts, profiles,
                               socialAccounts \cup
                                   {[user |-> user.id, provider |-> "google",
                                     uid |-> info.id]},
                               nextUserId)]
         ELSE LET made == create_user_from_google(info) IN
              IF made.error # NoError THEN made
              ELSE [error |-> NoError, created |-> TRUE, user |-> made.user,
                    store |-> made.store]

\* validate_google_token returning None.
NoUserInfo == [rejected |-> TRUE]

\* What Google's userinfo endpoint answers for a token it accepts.
GoogleNames ==
    {[name |-> "Full Name", given_name |-> "Ann", family_name |-> "Lee"],
     [name |-> "", given_name |-> "Ann", family_name |-> "Lee"],
     [name |-> "", given_name |-> "Ann", family_name |-> ""],
     [name |-> "", given_name |-> "", family_name |-> ""]}

GoogleUserInfo ==
    {[id |-> uid, email |-> e, name |-> n.name, given_name |-> n.given_name,
      family_name |-> n.family_name] :
        uid \in {Absent, "g1", "g2"},
        e \in {NoEmail} \cup AuthEmails,
        n \in GoogleNames}

\* What the call to Google's userinfo endpoint comes to: a 200 answer with
\* its JSON body, another status, a timeout, or another RequestException.
ProviderOk(info) == [kind |-> "ok", info |-> info]
ProviderFailed(kind) == [kind |-> kind]
ProviderFailures == {"rejected", "timeout", "error"}

\* The body of a non-200 answer read as user info: no id, no email.
ErrorBody ==
    [id |-> Absent, email |-> NoEmail, name |-> "", given_name |-> "", family_name |-> ""]

validate_google_token_IgnoresStatus(provider) ==
    IF provider.kind = "ok" THEN provider.info
    ELSE IF provider.kind = "rejected" THEN ErrorBody
    ELSE [rejected |-> TRUE]

\* validate_google_token: the JSON of a 200 answer, None otherwise.
validate_google_token(provider) ==
    IF provider.kind = "ok" THEN provider.info ELSE NoUserInfo

\* google_login: has_token is whether the body carries access_token;
\* provider is what the one call to Google comes to.
google_login(has_token, provider) ==
    /\ LET info == validate_google_token(provider)
           req == [has_token |-> has_token, provider |-> provider.kind]
       IN
       IF ~has_token
       THEN /\ resp' = [op |-> "google_login", status |-> 400, req_info |-> NoUserInfo,
                        req |-> req,
                        detail |-> "access_token: This field is required."]
            /\ UNCHANGED <<accounts, profiles, socialAccounts, nextUserId>>
       ELSE IF info = NoUserInfo
       THEN /\ resp' = [op |-> "google_login", status |-> 401, req_info |-> info,
                        req |-> req, detail |-> "Invalid Google access token"]
            /\ UNCHANGED <<accounts, profiles, socialAccounts, nextUserId>>
       ELSE LET got == get_or_create_user_from_google(info) IN
            IF got.error # NoError
            THEN /\ resp' = [op |-> "google_login", status |-> 400, req_info |-> info,
                             req |-> req,
                             detail |-> <<"Social authentication failed", got.error>>]
                 /\ UNCHANGED <<accounts, profiles, socialAccounts, nextUserId>>
            ELSE /\ accounts' = got.store.accounts
                 /\ profiles' = got.store.profiles
                 /\ socialAccounts' = got.store.socialAccounts
                 /\ nextUserId' = got.store.nextUserId
                 /\ resp' = [op |-> "google_login", status |-> 200, req_info |-> info,
                             req |-> req,
                             user |-> UserSerializer_data(got.user, got.store.profiles),
                             tokens |-> RefreshToken_for_user(got.user),
                             created |-> got.created,
                             was_linked |-> \E sa \in socialAccounts :
                                               sa.provider = "google" /\ sa.uid = info.id]
    /\ UNCHANGED <<posts, comments, likes, media,
                   nextPostId, nextCommentId, nextLikeId, nextMediaId,
                   likeReqs, settings, jwt, authReqs>>

\* ------------------------------------------------- session tokens (JWT)
\* SIMPLE_JWT lifetimes, in minutes.
ACCESS_TOKEN_LIFETIME == 5
REFRESH_TOKEN_LIFETIME == 60

\* A signed token: its type claim, user_id claim, jti and exp.  The jti of
\* an access token is never read and is left 0.
Token(type, user_id, jti, exp) ==
    [token_type |-> type, user_id |-> user_id, jti |-> jti, exp |-> exp]

\* A string that does not decode to a token signed by this server.
MalformedToken == Token("garbage", 0, 0, 0)

\* No Authorization header / no field in the body.
NoToken == Token("none", 0, 0, 0)

TOKEN_OK == "ok"

\* 'rest_framework_simplejwt.token_blacklist' in INSTALLED_APPS
TOKEN_BLACKLIST_INSTALLED == TRUE

\* Token.__init__(token): the backend decodes and checks signature and exp,
\* then verify(): check_blacklist (BlacklistMixin), then the token type.
\* The TokenError message, or TOKEN_OK.
Token_init_NoBlacklistCheck(tok, type) ==
    IF tok \notin jwt.issued \/ jwt.now >= tok.exp THEN "Token is invalid or expired"
    ELSE IF tok.token_type # type THEN "Token has wrong type"
    ELSE TOKEN_OK

Token_init(tok, type) ==
    IF tok \notin jwt.issued \/ jwt.now >= tok.exp THEN "Token is invalid or expired"
    ELSE IF TOKEN_BLACKLIST_INSTALLED /\ type = "refresh" /\ tok.jti \in jwt.blacklisted
    THEN "Token is blacklisted"
    ELSE IF tok.token_type # type THEN "Token has wrong type"
    ELSE TOKEN_OK

\* refresh.access_token
RefreshToken_access_token(user_id) ==
    Token("access", user_id, 0, jwt.now + ACCESS_TOKEN_LIFETIME)

\* RefreshToken.for_user(user) with its jti and exp, and the token store
\* after it.
IssuePair(user) ==
    LET refresh == Token(RefreshToken_for_user(user).refresh.token_type, user.id,
                         jwt.nextJti, jwt.now + REFRESH_TOKEN_LIFETIME)
        access == RefreshToken_access_token(user.id)
    IN
    [refresh |-> refresh, access |-> access,
     jwt |-> [jwt EXCEPT !.issued = @ \cup {refresh, access}, !.nextJti = @ + 1]]

NoUser == [id |-> 0]

\* JWTAuthentication.authenticate followed by IsAuthenticated: the user of
\* a valid access token, or NoUser (answered 401).
JWTAuthentication_authenticate_AnyType(tok) ==
    IF tok = NoToken THEN NoUser
    ELSE IF tok \notin jwt.issued \/ jwt.now >= tok.exp THEN NoUser
    ELSE IF \E a \in accounts : a.id = tok.user_id THEN AccountById(tok.user_id)
    ELSE NoUser

JWTAuthentication_authenticate(tok) ==
    IF tok = NoToken THEN NoUser
    ELSE IF Token_init(tok, "access") # TOKEN_OK THEN NoUser
    ELSE IF \E a \in accounts : a.id = tok.user_id THEN AccountById(tok.user_id)
    ELSE NoUser

\* REST_FRAMEWORK['DEFAULT_AUTHENTICATION_CLASSES']
DEFAULT_AUTHENTICATION_CLASSES == <<"JWTAuthentication">>

\* APIView.permission_denied for a request without a user: 401 when the
\* first authentication class has an authenticate_header (JWT's 'Bearer'),
\* 403 otherwise.
NotAuthenticated_status ==
    IF DEFAULT_AUTHENTICATION_CLASSES[1] = "JWTAuthentication" THEN 401 ELSE 403

Unauthenticated(op) ==
    [op |-> op, status |-> NotAuthenticated_status, detail |-> "Unauthenticated"]

StoreVars == <<accounts, profiles, socialAccounts, posts, comments, likes, media,
               nextUserId, nextPostId, nextCommentId, nextLikeId, nextMediaId,
               likeReqs, settings, authReqs>>

logout_view_OwnTokenOnly(access, refresh) ==
    /\ IF JWTAuthentication_authenticate(access) = NoUser
       THEN /\ resp' = Unauthenticated("logout")
            /\ UNCHANGED jwt
       ELSE IF refresh = NoToken
       THEN /\ resp' = [op |-> "logout", status |-> 200,
                        requester |-> JWTAuthentication_authenticate(access).id,
                        message |-> "Successfully logged out", refresh |-> refresh,
                        was |-> "absent"]
            /\ UNCHANGED jwt
       ELSE IF \/ Token_init(refresh, "refresh") # TOKEN_OK
               \/ ~TOKEN_BLACKLIST_INSTALLED
               \/ refresh.user_id # JWTAuthentication_authenticate(access).id
       THEN /\ resp' = [op |-> "logout", status |-> 400, error |-> "Invalid token",
                        requester |-> JWTAuthentication_authenticate(access).id,
                        refresh |-> refresh, was |-> Token_init(refresh, "refresh")]
            /\ UNCHANGED jwt
       ELSE /\ jwt' = [jwt EXCEPT !.blacklisted = @ \cup {refresh.jti}]
            /\ resp' = [op |-> "logout", status |-> 200,
                        requester |-> JWTAuthentication_authenticate(access).id,
                        message |-> "Successfully logged out", refresh |-> refresh,
                        was |-> TOKEN_OK]
    /\ UNCHANGED StoreVars

logout_view_RevokesAllOfUser(access, refresh) ==
    /\ IF JWTAuthentication_authenticate(access) = NoUser
       THEN /\ resp' = Unauthenticated("logout")
            /\ UNCHANGED jwt
       ELSE IF refresh = NoToken
       THEN /\ resp' = [op |-> "logout", status |-> 200,
                        requester |-> JWTAuthentication_authenticate(access).id,
                        message |-> "Successfully logged out", refresh |-> refresh,
                        was |-> "absent"]
            /\ UNCHANGED jwt
       ELSE IF Token_init(refresh, "refresh") # TOKEN_OK \/ ~TOKEN_BLACKLIST_INSTALLED
       THEN /\ resp' = [op |-> "logout", status |-> 400, error |-> "Invalid token",
                        requester |-> JWTAuthentication_authenticate(access).id,
                        refresh |-> refresh, was |-> Token_init(refresh, "refresh")]
            /\ UNCHANGED jwt
       ELSE /\ jwt' = [jwt EXCEPT !.blacklisted =
                           @ \cup {t.jti : t \in {u \in jwt.issued :
                                                    /\ u.token_type = "refresh"
                                                    /\ u.user_id = refresh.user_id}}]
            /\ resp' = [op |-> "logout", status |-> 200,
                        requester |-> JWTAuthentication_authenticate(access).id,
                        message |-> "Successfully logged out", refresh |-> refresh,
                        was |-> TOKEN_OK]
    /\ UNCHANGED StoreVars

\* logout_view: access is the bearer token, refresh the 'refresh' field of
\* the body (NoToken when the body has none).
logout_view(access, refresh) ==
    /\ IF JWTAuthentication_authenticate(access) = NoUser
       THEN /\ resp' = Unauthenticated("logout")
            /\ UNCHANGED jwt
       ELSE IF refresh = NoToken
       THEN /\ resp' = [op |-> "logout", status |-> 200,
                        requester |-> JWTAuthentication_authenticate(access).id,
                        message |-> "Successfully logged out", refresh |-> refresh,
                        was |-> "absent"]
            /\ UNCHANGED jwt
       ELSE IF Token_init(refresh, "refresh") # TOKEN_OK \/ ~TOKEN_BLACKLIST_INSTALLED
       THEN /\ resp' = [op |-> "logout", status |-> 400, error |-> "Invalid token",
                        requester |-> JWTAuthentication_authenticate(access).id,
                        refresh |-> refresh, was |-> Token_init(refresh, "refresh")]
            /\ UNCHANGED jwt
       ELSE /\ jwt' = [jwt EXCEPT !.blacklisted = @ \cup {refresh.jti}]
            /\ resp' = [op |-> "logout", status |-> 200,
                        requester |-> JWTAuthentication_authenticate(access).id,
                        message |-> "Successfully logged out", refresh |-> refresh,
                        was |-> TOKEN_OK]
    /\ UNCHANGED StoreVars

\* CustomTokenRefreshView (TokenRefreshView.post / TokenRefreshSerializer)
TokenRefreshView_post(refresh) ==
    /\ IF refresh = NoToken
       THEN /\ resp' = [op |-> "refresh", status |-> 400, refresh |-> refresh,
                        detail |-> "refresh: This field is required."]
            /\ UNCHANGED jwt
       ELSE IF Token_init(refresh, "refresh") # TOKEN_OK
       THEN /\ resp' = [op |-> "refresh", status |-> 401, refresh |-> refresh,
                        detail |-> Token_init(refresh, "refresh")]
            /\ UNCHANGED jwt
       ELSE LET access == RefreshToken_access_token(refresh.user_id)
                rotated == Token("refresh", refresh.user_id, jwt.nextJti,
                                 jwt.now + REFRESH_TOKEN_LIFETIME)
            IN
            IF ~settings.ROTATE_REFRESH_TOKENS
            THEN /\ jwt' = [jwt EXCEPT !.issued = @ \cup {access}]
                 /\ resp' = [op |-> "refresh", status |-> 200, refresh |-> refresh,
                             access |-> access]
            ELSE /\ jwt' = [jwt EXCEPT
                               !.issued = @ \cup {access, rotated},
                               !.nextJti = @ + 1,
                               !.blacklisted =
                                   IF settings.BLACKLIST_AFTER_ROTATION
                                      /\ TOKEN_BLACKLIST_INSTALLED
                                   THEN @ \cup {refresh.jti} ELSE @]
                 /\ resp' = [op |-> "refresh", status |-> 200, refresh |-> refresh,
                             access |-> access, new_refresh |-> rotated]
    /\ UNCHANGED StoreVars

authenticate_AnyPassword(email, password) ==
    LET found == {a \in accounts : a.email = email} IN
    IF found = {} THEN [id |-> 0] ELSE CHOOSE x \in found : TRUE

\* ModelBackend.authenticate: the account whose email is the one typed and
\* whose password checks, or NoUser.
authenticate(email, password) ==
    LET found == {a \in accounts : a.email = email} IN
    IF found = {} THEN NoUser
    ELSE LET a == CHOOSE x \in found : TRUE IN
         IF check_password(a, password) THEN a ELSE NoUser

NO_ACTIVE_ACCOUNT == "No active account found with the given credentials"

\* LoginView.post over TokenObtainPairView; req records the request.
LoginView_post(email, password) ==
    /\ LET user == authenticate(email, password)
           req == [email |-> email, password |-> password]
       IN
       IF user = NoUser
       THEN /\ resp' = [op |-> "login", status |-> 401, detail |-> NO_ACTIVE_ACCOUNT,
                        req |-> req]
            /\ UNCHANGED jwt
       ELSE LET pair == IssuePair(user) IN
            /\ jwt' = pair.jwt
            /\ resp' = [op |-> "login", status |-> 200, refresh |-> pair.refresh,
                        access |-> pair.access,
                        user |-> UserSerializer_data(user, profiles), req |-> req]
    /\ UNCHANGED StoreVars

\* Time passes up to the instant at which the next outstanding token expires.
Tick ==
    /\ \E tok \in jwt.issued :
          /\ tok.exp > jwt.now
          /\ jwt' = [jwt EXCEPT !.now = tok.exp]
    /\ UNCHANGED StoreVars
    /\ UNCHANGED resp

\* ------------------------------------------------- authenticated requests
\* The 401 of APIView.initial (perform_authentication / permission_denied)
\* to the request that carried bearer.
NotAuthenticated(op, bearer) ==
    [op |-> op, status |-> NotAuthenticated_status, bearer |-> bearer,
     detail |-> IF bearer = NoToken
                THEN "Authentication credentials were not provided."
                ELSE "Given token not valid for any token type"]

\* APIView.initial before the handler: the request's user from its bearer
\* token, 401 without one; handler is the view's method for that user.
APIView_dispatch(op, bearer, handler) ==
    IF JWTAuthentication_authenticate(bearer) = NoUser
    THEN /\ resp' = NotAuthenticated(op, bearer)
         /\ UNCHANGED StoreVars
         /\ UNCHANGED jwt
    ELSE handler

NO_USER_MATCHES == "No Account matches the given query."

\* UserDetailView.get: RetrieveAPIView over User.objects.all()
UserDetailView_get(user, pk) ==
    /\ resp' = IF \E a \in accounts : a.id = pk
               THEN [op |-> "user_detail", user |-> user.id, status |-> 200,
                     data |-> UserSerializer_data(AccountById(pk), profiles)]
               ELSE [op |-> "user_detail", user |-> user.id, status |-> 404,
                     detail |-> NO_USER_MATCHES]
    /\ UNCHANGED StoreVars
    /\ UNCHANGED jwt

ProfileData == [display_name : {"Al"}, bio : {Absent, "hi"}]

\* ProfileUpdateView.update / partial_update: get_object is
\* Profile.objects.get_or_create(user=request.user); ProfileSerializer
\* writes the fields the request carries.
ProfileUpdateView_update(user, data) ==
    /\ LET mine == {p \in profiles : p.user = user.id}
           profile == IF mine = {} THEN [user |-> user.id, display_name |-> "", bio |-> ""]
                      ELSE CHOOSE p \in mine : TRUE
           saved == [profile EXCEPT
                        !.display_name = IF data.display_name = Absent THEN @
                                         ELSE data.display_name,
                        !.bio = IF data.bio = Absent THEN @ ELSE data.bio]
       IN
       /\ profiles' = (profiles \ mine) \cup {saved}
       /\ resp' = [op |-> "profile_update", user |-> user.id, status |-> 200,
                   data |-> [display_name |-> saved.display_name, bio |-> saved.bio]]
    /\ UNCHANGED <<accounts, socialAccounts, posts, comments, likes, media,
                   nextUserId, nextPostId, nextCommentId, nextLikeId, nextMediaId,
                   likeReqs, settings, jwt, authReqs>>

\* ------------------------------------------------------- specifications
NoResp == [op |-> "none", status |-> 0]

DefaultSettings ==
    [MEDIA_MAX_SIZE |-> MEDIA_MAX_SIZE,
     MEDIA_ALLOWED_CONTENT_TYPES |-> {"image/png", "text/plain"},
     ROTATE_REFRESH_TOKENS |-> FALSE,
     BLACKLIST_AFTER_ROTATION |-> FALSE]

SeedPosts ==
    {[id |-> 1, author |-> 1, privacy |-> "public", content |-> "c1"],
     [id |-> 2, author |-> 1, privacy |-> "private", content |-> "c2"]}

InitStore(seeded, reqs) ==
    /\ accounts = SeedAccounts
    /\ profiles = SeedProfiles
    /\ socialAccounts = {}
    /\ posts = seeded
    /\ comments = {}
    /\ likes = {}
    /\ media = {}
    /\ nextUserId = 4
    /\ nextPostId = Cardinality(seeded) + 1
    /\ nextCommentId = 1
    /\ nextLikeId = 1
    /\ nextMediaId = 1
    /\ likeReqs = reqs
    /\ settings = DefaultSettings
    /\ jwt = NoTokens
    /\ authReqs = <<>>
    /\ resp = NoResp

\* Requests name post ids that exist, that were deleted and that never existed.
PostIds == 1..MaxPosts
SeedPostIds == 1..(Cardinality(SeedPosts) + 1)

\* Spec: the post endpoints, one request at a time, from an empty post table.
Init == InitStore({}, <<>>)

Next ==
    \/ \E user \in accounts : PostViewSet_list(user)
    \/ \E user \in accounts, privacy \in Privacies, content \in Contents :
           PostViewSet_create(user, privacy, content)
    \/ \E user \in accounts, pk \in PostIds : PostViewSet_retrieve(user, pk)
    \/ \E user \in accounts, pk \in PostIds, data \in UpdateData :
           PostViewSet_update(user, pk, data)
    \/ \E user \in accounts, pk \in PostIds : PostViewSet_destroy(user, pk)

Spec == Init /\ [][Next]_vars

\* SpecAccess: retrieve, like and comment on a public and a private post of
\* account 1, one request at a time.
InitAccess == InitStore(SeedPosts, <<>>)

NextAccess ==
    \/ \E user \in accounts, pk \in SeedPostIds : PostViewSet_retrieve(user, pk)
    \/ \E user \in accounts, pk \in SeedPostIds : PostViewSet_like(user, pk)
    \/ \E user \in accounts, pk \in SeedPostIds, text \in Texts,
          parent \in {0} \cup {c.id : c \in comments} :
           CommentViewSet_create(user, pk, text, parent)

SpecAccess == InitAccess /\ [][NextAccess]_vars

\* SpecLike: like requests of accounts 1 and 2 running concurrently, each
\* store statement one step.  Like.objects.get_or_create is Django's: get;
\* on DoesNotExist create inside a savepoint; on IntegrityError get again,
\* and re-raise the IntegrityError when that get finds nothing.
Idle == [pc |-> "idle"]
Done == [pc |-> "done"]

LikeReqIds == 1..MaxLikeReqs

SetReq(r, v) == likeReqs' = [likeReqs EXCEPT ![r] = v]

\* self.get_object() and the first get of get_or_create
Like_begin(r, user, pk) ==
    /\ likeReqs[r] = Idle
    /\ \A q \in LikeReqIds : q < r => likeReqs[q] # Idle
    /\ LET o == get_object(PostViewSet_get_queryset(user), pk, "POST", user, FALSE)
           existing == Like_get(likes, pk, user.id)
       IN
       IF o.status = 404
       THEN /\ resp' = NotFound("like", user, pk, NO_POST_MATCHES)
            /\ SetReq(r, Done)
       ELSE /\ UNCHANGED resp
            /\ IF existing = {}
               THEN SetReq(r, [pc |-> "create", user |-> user.id, post |-> pk])
               ELSE SetReq(r, [pc |-> "delete", user |-> user.id, post |-> pk,
                               like |-> CHOOSE l \in existing : TRUE])
    /\ UNCHANGED <<accounts, profiles, socialAccounts, posts, comments, likes, media,
                   nextUserId, nextPostId, nextCommentId, nextLikeId, nextMediaId,
                   settings, jwt, authReqs>>

\* self.create(**params) under unique_together = ('post','user')
Like_create(r) ==
    /\ likeReqs[r].pc = "create"
    /\ LET q == likeReqs[r] IN
       IF Like_get(likes, q.post, q.user) = {}
       THEN /\ nextLikeId <= MaxLikeRows
            /\ likes' = likes \cup {[id |-> nextLikeId, post |-> q.post, user |-> q.user]}
            /\ nextLikeId' = nextLikeId + 1
            /\ SetReq(r, [pc |-> "count", user |-> q.user, post |-> q.post,
                          created |-> TRUE])
       ELSE /\ UNCHANGED <<likes, nextLikeId>>
            /\ SetReq(r, [pc |-> "reget", user |-> q.user, post |-> q.post])
    /\ UNCHANGED <<accounts, profiles, socialAccounts, posts, comments, media,
                   nextUserId, nextPostId, nextCommentId, nextMediaId,
                   settings, jwt, authReqs, resp>>

\* except IntegrityError: return self.get(**kwargs), False; else raise
Like_reget(r) ==
    /\ likeReqs[r].pc = "reget"
    /\ LET q == likeReqs[r]
           existing == Like_get(likes, q.post, q.user)
       IN
       IF existing # {}
       THEN /\ SetReq(r, [pc |-> "delete", user |-> q.user, post |-> q.post,
                          like |-> CHOOSE l \in existing : TRUE])
            /\ UNCHANGED resp
       ELSE /\ SetReq(r, Done)
            /\ resp' = [op |-> "like", user |-> q.user, post |-> q.post, status |-> 500,
                        detail |-> "IntegrityError"]
    /\ UNCHANGED <<accounts, profiles, socialAccounts, posts, comments, likes, media,
                   nextUserId, nextPostId, nextCommentId, nextLikeId, nextMediaId,
                   settings, jwt, authReqs>>

\* if not created: like.delete()
Like_delete_row(r) ==
    /\ likeReqs[r].pc = "delete"
    /\ LET q == likeReqs[r] IN
       /\ likes' = Like_delete(likes, q.like)
       /\ SetReq(r, [pc |-> "count", user |-> q.user, post |-> q.post, created |-> FALSE])
    /\ UNCHANGED <<accounts, profiles, socialAccounts, posts, comments, media,
                   nextUserId, nextPostId, nextCommentId, nextLikeId, nextMediaId,
                   settings, jwt, authReqs, resp>>

\* return Response({'liked': ..., 'likes_count': post.likes.count(), ...})
Like_respond(r) ==
    /\ likeReqs[r].pc = "count"
    /\ LET q == likeReqs[r] IN
       /\ resp' = [op |-> "like", user |-> q.user, post |-> q.post, status |-> 200,
                   liked |-> q.created, likes_count |-> likes_count(likes, q.post),
                   message |-> IF q.created THEN "Post liked" ELSE "Like removed"]
       /\ SetReq(r, [pc |-> "done", user |-> q.user, post |-> q.post,
                     liked |-> q.created])
    /\ UNCHANGED <<accounts, profiles, socialAccounts, posts, comments, likes, media,
                   nextUserId, nextPostId, nextCommentId, nextLikeId, nextMediaId,
                   settings, jwt, authReqs>>

LikeUsers == {a \in accounts : ~a.is_staff}

InitLike == InitStore(SeedPosts, [r \in LikeReqIds |-> Idle])

NextLike ==
    \/ \E r \in LikeReqIds, user \in LikeUsers, pk \in SeedPostIds : Like_begin(r, user, pk)
    \/ \E r \in LikeReqIds : Like_create(r)
    \/ \E r \in LikeReqIds : Like_reget(r)
    \/ \E r \in LikeReqIds : Like_delete_row(r)
    \/ \E r \in LikeReqIds : Like_respond(r)

SpecLike == InitLike /\ [][NextLike]_vars

\* SpecMedia: batch uploads to the seeded posts, one request at a time.
InitMedia == InitStore(SeedPosts, <<>>)

NextMedia ==
    \E user \in accounts, pk \in {p.id : p \in SeedPosts},
       files \in SeqsUpTo(BatchFiles, MaxFiles) :
        MediaBatchUploadView_post(user, pk, files)

SpecMedia == InitMedia /\ [][NextMedia]_vars

\* SpecAuth: registrations and Google logins, one request at a time, from
\* an empty store.
InitAuth ==
    /\ accounts = {}
    /\ profiles = {}
    /\ socialAccounts = {}
    /\ posts = {}
    /\ comments = {}
    /\ likes = {}
    /\ media = {}
    /\ nextUserId = 1
    /\ nextPostId = 1
    /\ nextCommentId = 1
    /\ nextLikeId = 1
    /\ nextMediaId = 1
    /\ likeReqs = <<>>
    /\ settings = DefaultSettings
    /\ jwt = NoTokens
    /\ authReqs = <<>>
    /\ resp = NoResp

NextAuth ==
    \/ \E data \in RegisterData : RegisterView_create(data)
    \/ \E info \in GoogleUserInfo : google_login(TRUE, ProviderOk(info))
    \/ \E has_token \in BOOLEAN, kind \in ProviderFailures :
          google_login(has_token, ProviderFailed(kind))

SpecAuth == InitAuth /\ [][NextAuth]_vars

\* SpecToken: logins, refreshes, logouts and the passing of time over the
\* seeded accounts, under each rotation setting.
MaxIssued == 4

LoginEmails == {Email("a", "example.com"), Email("b", "example.com"), Email("z", "example.com")}

Presented == jwt.issued \cup {MalformedToken, NoToken}

InitToken ==
    /\ accounts = SeedAccounts
    /\ profiles = SeedProfiles
    /\ socialAccounts = {}
    /\ posts = {}
    /\ comments = {}
    /\ likes = {}
    /\ media = {}
    /\ nextUserId = 4
    /\ nextPostId = 1
    /\ nextCommentId = 1
    /\ nextLikeId = 1
    /\ nextMediaId = 1
    /\ likeReqs = <<>>
    /\ \E rotate \in BOOLEAN, after \in BOOLEAN :
          settings = [DefaultSettings EXCEPT !.ROTATE_REFRESH_TOKENS = rotate,
                                             !.BLACKLIST_AFTER_ROTATION = after]
    /\ jwt = NoTokens
    /\ authReqs = <<>>
    /\ resp = NoResp

NextToken ==
    \/ \E email \in LoginEmails, password \in {"pw1", "pw2"} :
          /\ authenticate(email, password) # NoUser
                => Cardinality(jwt.issued) + 2 <= MaxIssued
          /\ LoginView_post(email, password)
    \/ \E access \in Presented, refresh \in Presented : logout_view(access, refresh)
    \/ \E refresh \in Presented :
          /\ Token_init(refresh, "refresh") = TOKEN_OK
                => Cardinality(jwt.issued)
                      + (IF settings.ROTATE_REFRESH_TOKENS THEN 2 ELSE 1) <= MaxIssued
          /\ TokenRefreshView_post(refresh)
    \/ Tick

SpecToken == InitToken /\ [][NextToken]_vars

\* SpecComment: comments on the seeded posts are created, listed, edited
\* and deleted by the three accounts.
CommentIds == 1..(MaxComments + 1)

InitComment == InitStore(SeedPosts, <<>>)

NextComment ==
    \/ \E user \in accounts, pk \in SeedPostIds, text \in Texts,
          parent \in {0} \cup {c.id : c \in comments} :
           CommentViewSet_create(user, pk, text, parent)
    \/ \E user \in accounts, pk \in SeedPostIds : CommentViewSet_list(user, pk)
    \/ \E user \in accounts, post_pk \in SeedPostIds, pk \in CommentIds,
          text \in Texts \cup {"t2"} :
           CommentViewSet_update(user, post_pk, pk, text)
    \/ \E user \in accounts, post_pk \in SeedPostIds, pk \in CommentIds :
           CommentViewSet_destroy(user, post_pk, pk)

SpecComment == InitComment /\ [][NextComment]_vars

\* SpecMediaDetail: single uploads to the seeded posts, and retrieval and
\* deletion of the media by the three accounts.
MediaIds == 1..(MaxMedia + 1)

UploadFiles ==
    {UploadedFile("img.png", 70, "image/png", TRUE),
     UploadedFile("bad.png", 10, "image/png", FALSE)}

InitMediaDetail == InitStore(SeedPosts, <<>>)

NextMediaDetail ==
    \/ \E user \in accounts, pk \in SeedPostIds, f \in UploadFiles :
           MediaUploadView_post(user, pk, f)
    \/ \E user \in accounts, post_pk \in SeedPostIds, pk \in MediaIds :
           MediaDetailView_get(user, post_pk, pk)
    \/ \E user \in accounts, post_pk \in SeedPostIds, pk \in MediaIds :
           MediaDetailView_delete(user, post_pk, pk)

SpecMediaDetail == InitMediaDetail /\ [][NextMediaDetail]_vars

\* SpecAuthRace: registrations and Google logins running concurrently, each
\* advancing one database statement at a time (autocommit).
MaxAuthReqs == 2

AuthReqIds == 1..MaxAuthReqs

RaceRegisterData ==
    [email : {Email("a", "example.com"), Email("a", "EXAMPLE.COM")},
     password : {"pw1"}, password_confirm : {"pw1"}, display_name : {Absent}]

RaceGoogleUserInfo ==
    {[id |-> uid, email |-> e, name |-> "", given_name |-> "", family_name |-> ""] :
        uid \in {"g1", "g2"},
        e \in {Email("a", "example.com"), Email("a", "EXAMPLE.COM")}}

SetAuthReq(r, v) == authReqs' = [authReqs EXCEPT ![r] = v]

AuthDone(r, answer) ==
    /\ SetAuthReq(r, [pc |-> "done", answer |-> answer])
    /\ resp' = answer

RaceUnchanged ==
    UNCHANGED <<posts, comments, likes, media,
                nextPostId, nextCommentId, nextLikeId, nextMediaId,
                likeReqs, settings, jwt>>

\* serializer.is_valid(raise_exception=True): the unique validator's query
\* and validate().
Register_is_valid(r, data) ==
    /\ authReqs[r] = Idle
    /\ \A q \in AuthReqIds : q < r => authReqs[q] # Idle
    /\ IF UniqueValidator_email(data.email) \/ ~UserRegistrationSerializer_validate(data)
       THEN AuthDone(r, [op |-> "register", status |-> 400, req |-> data])
       ELSE /\ SetAuthReq(r, [pc |-> "reg_create_user", data |-> data])
            /\ UNCHANGED resp
    /\ UNCHANGED <<accounts, profiles, socialAccounts, nextUserId>>
    /\ RaceUnchanged

\* User.objects.create_user(...) of UserRegistrationSerializer.create
Register_create_user(r) ==
    /\ authReqs[r].pc = "reg_create_user"
    /\ LET data == authReqs[r].data
           made == create_user(accounts, nextUserId, data.email, data.password, "", "")
       IN
       IF made.error # NoError
       THEN /\ AuthDone(r, [op |-> "register", status |-> 500, detail |-> made.error,
                            req |-> data])
            /\ UNCHANGED <<accounts, nextUserId>>
       ELSE /\ accounts' = accounts \cup {made.user}
            /\ nextUserId' = nextUserId + 1
            /\ SetAuthReq(r, [pc |-> "reg_profile", data |-> data, user |-> made.user])
            /\ UNCHANGED resp
    /\ UNCHANGED <<profiles, socialAccounts>>
    /\ RaceUnchanged

\* Profile.objects.create(...) and the response of RegisterView.create
Register_profile(r) ==
    /\ authReqs[r].pc = "reg_profile"
    /\ LET data == authReqs[r].data
           user == authReqs[r].user
       IN
       /\ profiles' = profiles \cup
              {[user |-> user.id,
                display_name |-> Registration_display_name(data.display_name, user),
                bio |-> ""]}
       /\ AuthDone(r, [op |-> "register", status |-> 201,
                       user |-> UserSerializer_data(user, profiles'),
                       tokens |-> RefreshToken_for_user(user), req |-> data])
    /\ UNCHANGED <<accounts, socialAccounts, nextUserId>>
    /\ RaceUnchanged

SocialFailed(info, exc) ==
    [op |-> "google_login", status |-> 400, req_info |-> info,
     detail |-> <<"Social authentication failed", exc>>]

SocialOk(info, user, created) ==
    [op |-> "google_login", status |-> 200, req_info |-> info,
     user |-> [id |-> user.id, email |-> user.email],
     tokens |-> RefreshToken_for_user(user), created |-> created]

\* get_or_create_user_from_google up to SocialAccount.objects.get
Social_get_identity(r, info) ==
    /\ authReqs[r] = Idle
    /\ \A q \in AuthReqIds : q < r => authReqs[q] # Idle
    /\ LET linked == {sa \in socialAccounts : sa.provider = "google" /\ sa.uid = info.id}
       IN
       IF linked # {}
       THEN AuthDone(r, SocialOk(info, AccountById((CHOOSE sa \in linked : TRUE).user), FALSE))
       ELSE /\ SetAuthReq(r, [pc |-> "soc_by_email", info |-> info])
            /\ UNCHANGED resp
    /\ UNCHANGED <<accounts, profiles, socialAccounts, nextUserId>>
    /\ RaceUnchanged

\* User.objects.get(email=email)
Social_get_user(r) ==
    /\ authReqs[r].pc = "soc_by_email"
    /\ LET info == authReqs[r].info
           by_email == {a \in accounts : a.email = info.email}
       IN
       IF by_email # {}
       THEN SetAuthReq(r, [pc |-> "soc_link", info |-> info,
                           user |-> CHOOSE a \in by_email : TRUE])
       ELSE SetAuthReq(r, [pc |-> "soc_create_user", info |-> info])
    /\ UNCHANGED <<accounts, profiles, socialAccounts, nextUserId, resp>>
    /\ RaceUnchanged

\* SocialAccount.objects.create under allauth's unique (provider, uid)
SocialAccount_create(rows, user, uid) ==
    IF \E sa \in rows : sa.provider = "google" /\ sa.uid = uid
    THEN Raise("IntegrityError")
    ELSE [error |-> NoError,
          rows |-> rows \cup {[user |-> user.id, provider |-> "google", uid |-> uid]}]

\* Linking the identity to the account found by email, and the response.
Social_link(r) ==
    /\ authReqs[r].pc = "soc_link"
    /\ LET info == authReqs[r].info
           user == authReqs[r].user
           made == SocialAccount_create(socialAccounts, user, info.id)
       IN
       IF made.error # NoError
       THEN /\ AuthDone(r, SocialFailed(info, made.error))
            /\ UNCHANGED socialAccounts
       ELSE /\ socialAccounts' = made.rows
            /\ AuthDone(r, SocialOk(info, user, FALSE))
    /\ UNCHANGED <<accounts, profiles, nextUserId>>
    /\ RaceUnchanged

\* User.objects.create_user(...) of create_user_from_google
Social_create_user(r) ==
    /\ authReqs[r].pc = "soc_create_user"
    /\ LET info == authReqs[r].info
           made == create_user(accounts, nextUserId, info.email, Absent,
                               info.given_name, info.family_name)
       IN
       IF made.error # NoError
       THEN /\ AuthDone(r, SocialFailed(info, made.error))
            /\ UNCHANGED <<accounts, nextUserId>>
       ELSE /\ accounts' = accounts \cup {made.user}
            /\ nextUserId' = nextUserId + 1
            /\ SetAuthReq(r, [pc |-> "soc_identity", info |-> info, user |-> made.user])
            /\ UNCHANGED resp
    /\ UNCHANGED <<profiles, socialAccounts>>
    /\ RaceUnchanged

\* SocialAccount.objects.create(...) of create_user_from_google
Social_create_identity(r) ==
    /\ authReqs[r].pc = "soc_identity"
    /\ LET info == authReqs[r].info
           user == authReqs[r].user
           made == SocialAccount_create(socialAccounts, user, info.id)
       IN
       IF made.error # NoError
       THEN /\ AuthDone(r, SocialFailed(info, made.error))
            /\ UNCHANGED socialAccounts
       ELSE /\ socialAccounts' = made.rows
            /\ SetAuthReq(r, [pc |-> "soc_profile", info |-> info, user |-> user])
            /\ UNCHANGED resp
    /\ UNCHANGED <<accounts, profiles, nextUserId>>
    /\ RaceUnchanged

\* The profile of create_user_from_google, and the response.
Social_create_profile(r) ==
    /\ authReqs[r].pc = "soc_profile"
    /\ LET info == authReqs[r].info
           user == authReqs[r].user
       IN
       /\ profiles' = IF \E p \in profiles : p.user = user.id THEN profiles
                      ELSE profiles \cup {[user |-> user.id,
                                           display_name |-> Google_display_name(info),
                                           bio |-> ""]}
       /\ AuthDone(r, SocialOk(info, user, TRUE))
    /\ UNCHANGED <<accounts, socialAccounts, nextUserId>>
    /\ RaceUnchanged

InitAuthRace ==
    /\ accounts = {}
    /\ profiles = {}
    /\ socialAccounts = {}
    /\ posts = {}
    /\ comments = {}
    /\ likes = {}
    /\ media = {}
    /\ nextUserId = 1
    /\ nextPostId = 1
    /\ nextCommentId = 1
    /\ nextLikeId = 1
    /\ nextMediaId = 1
    /\ likeReqs = <<>>
    /\ settings = DefaultSettings
    /\ jwt = NoTokens
    /\ authReqs = [r \in AuthReqIds |-> Idle]
    /\ resp = NoResp

NextAuthRace ==
    \/ \E r \in AuthReqIds, data \in RaceRegisterData : Register_is_valid(r, data)
    \/ \E r \in AuthReqIds : Register_create_user(r)
    \/ \E r \in AuthReqIds : Register_profile(r)
    \/ \E r \in AuthReqIds, info \in RaceGoogleUserInfo : Social_get_identity(r, info)
    \/ \E r \in AuthReqIds : Social_get_user(r)
    \/ \E r \in AuthReqIds : Social_link(r)
    \/ \E r \in AuthReqIds : Social_create_user(r)
    \/ \E r \in AuthReqIds : Social_create_identity(r)
    \/ \E r \in AuthReqIds : Social_create_profile(r)

SpecAuthRace == InitAuthRace /\ [][NextAuthRace]_vars

\* SpecProtected: every protected operation, requested with each bearer
\* token a client can hold after account 2 logged in (its access and
\* refresh token, a malformed string, none), while time passes.
ProtectedFiles == {UploadedFile("img.png", 70, "image/png", TRUE)}

LoggedIn(tokens, user) ==
    LET refresh == Token("refresh", user.id, tokens.nextJti, tokens.now + REFRESH_TOKEN_LIFETIME)
        access == Token("access", user.id, 0, tokens.now + ACCESS_TOKEN_LIFETIME)
    IN [tokens EXCEPT !.issued = @ \cup {refresh, access}, !.nextJti = @ + 1]

InitProtected ==
    /\ accounts = SeedAccounts
    /\ profiles = SeedProfiles
    /\ socialAccounts = {}
    /\ posts = SeedPosts
    /\ comments = {}
    /\ likes = {}
    /\ media = {}
    /\ nextUserId = 4
    /\ nextPostId = Cardinality(SeedPosts) + 1
    /\ nextCommentId = 1
    /\ nextLikeId = 1
    /\ nextMediaId = 1
    /\ likeReqs = <<>>
    /\ settings = DefaultSettings
    /\ jwt = LoggedIn(NoTokens, AccountById(2))
    /\ authReqs = <<>>
    /\ resp = NoResp

\* The target of the requests: account 1's private post.
ProtectedPostIds == {p.id : p \in {q \in SeedPosts : q.privacy = "private"}}

\* A request to a protected operation carrying bearer: APIView.initial,
\* then the view's handler for the authenticated user.
ProtectedRequest(bearer) ==
    \/ \E pk \in {2, nextUserId} :
           APIView_dispatch("user_detail", bearer,
               UserDetailView_get(JWTAuthentication_authenticate(bearer), pk))
    \/ \E data \in ProfileData :
           APIView_dispatch("profile_update", bearer,
               ProfileUpdateView_update(JWTAuthentication_authenticate(bearer), data))
    \/ APIView_dispatch("list", bearer,
           PostViewSet_list(JWTAuthentication_authenticate(bearer)))
    \/ \E privacy \in Privacies :
           APIView_dispatch("create", bearer,
               PostViewSet_create(JWTAuthentication_authenticate(bearer), privacy, "c1"))
    \/ \E pk \in ProtectedPostIds :
           APIView_dispatch("retrieve", bearer,
               PostViewSet_retrieve(JWTAuthentication_authenticate(bearer), pk))
    \/ \E pk \in ProtectedPostIds, privacy \in Privacies :
           APIView_dispatch("update", bearer,
               PostViewSet_update(JWTAuthentication_authenticate(bearer), pk,
                                  [privacy |-> privacy, content |-> Absent]))
    \/ \E pk \in ProtectedPostIds :
           APIView_dispatch("destroy", bearer,
               PostViewSet_destroy(JWTAuthentication_authenticate(bearer), pk))
    \/ \E pk \in ProtectedPostIds :
           APIView_dispatch("like", bearer,
               PostViewSet_like(JWTAuthentication_authenticate(bearer), pk))
    \/ \E pk \in ProtectedPostIds :
           APIView_dispatch("comment_create", bearer,
               CommentViewSet_create(JWTAuthentication_authenticate(bearer), pk, "t1", 0))
    \/ \E pk \in ProtectedPostIds :
           APIView_dispatch("comment_list", bearer,
               CommentViewSet_list(JWTAuthentication_authenticate(bearer), pk))
    \/ \E post_pk \in ProtectedPostIds, pk \in {1} :
           APIView_dispatch("comment_update", bearer,
               CommentViewSet_update(JWTAuthentication_authenticate(bearer), post_pk, pk, "t2"))
    \/ \E post_pk \in ProtectedPostIds, pk \in {1} :
           APIView_dispatch("comment_destroy", bearer,
               CommentViewSet_destroy(JWTAuthentication_authenticate(bearer), post_pk, pk))
    \/ \E pk \in ProtectedPostIds, f \in ProtectedFiles :
           APIView_dispatch("media_upload", bearer,
               MediaUploadView_post(JWTAuthentication_authenticate(bearer), pk, f))
    \/ \E pk \in ProtectedPostIds, f \in ProtectedFiles :
           APIView_dispatch("media_batch", bearer,
               MediaBatchUploadView_post(JWTAuthentication_authenticate(bearer), pk, <<f>>))
    \/ \E post_pk \in ProtectedPostIds, pk \in {1} :
           APIView_dispatch("media_get", bearer,
               MediaDetailView_get(JWTAuthentication_authenticate(bearer), post_pk, pk))
    \/ \E post_pk \in ProtectedPostIds, pk \in {1} :
           APIView_dispatch("media_delete", bearer,
               MediaDetailView_delete(JWTAuthentication_authenticate(bearer), post_pk, pk))
    \/ \E refresh \in {tok \in Presented : tok.token_type \in {"none", "refresh"}} :
           logout_view(bearer, refresh)

NextProtected ==
    \/ \E bearer \in Presented : ProtectedRequest(bearer)
    \/ Tick

SpecProtected == InitProtected /\ [][NextProtected]_vars

\* SpecAuthVerified: registrations and Google logins whose userinfo answer
\* carries Google's verified_email flag, one request at a time.
VerifiableUserInfo ==
    {[id |-> uid, email |-> e, verified_email |-> v,
      name |-> "", given_name |-> "", family_name |-> ""] :
        uid \in {Absent, "g1", "g2"},
        e \in {NoEmail, Email("a", "example.com"), Email("b", "example.com")},
        v \in BOOLEAN}

NextAuthVerified ==
    \/ \E data \in {d \in RegisterData : d.password = d.password_confirm
                                         /\ d.display_name = Absent} :
          RegisterView_create(data)
    \/ \E info \in VerifiableUserInfo : google_login(TRUE, ProviderOk(info))

SpecAuthVerified == InitAuth /\ [][NextAuthVerified]_vars

\* SpecValidate: single uploads by account 1 to its public post, of files
\* of every size class and content type, under an empty and a non-empty
\* MEDIA_ALLOWED_CONTENT_TYPES.
ValidatedFiles ==
    {UploadedFile("f", size, ctype, decodes) :
        size \in {0, 70, MEDIA_MAX_SIZE, MEDIA_MAX_SIZE + 1},
        ctype \in {"image/png", "image/gif", "text/plain", ""},
        decodes \in BOOLEAN}

InitValidate ==
    /\ accounts = SeedAccounts
    /\ profiles = SeedProfiles
    /\ socialAccounts = {}
    /\ posts = SeedPosts
    /\ comments = {}
    /\ likes = {}
    /\ media = {}
    /\ nextUserId = 4
    /\ nextPostId = Cardinality(SeedPosts) + 1
    /\ nextCommentId = 1
    /\ nextLikeId = 1
    /\ nextMediaId = 1
    /\ likeReqs = <<>>
    /\ \E allowed \in {{}, DefaultSettings.MEDIA_ALLOWED_CONTENT_TYPES} :
          settings = [DefaultSettings EXCEPT !.MEDIA_ALLOWED_CONTENT_TYPES = allowed]
    /\ jwt = NoTokens
    /\ authReqs = <<>>
    /\ resp = NoResp

NextValidate ==
    \E f \in ValidatedFiles : MediaUploadView_post(AccountById(1), 1, f)

SpecValidate == InitValidate /\ [][NextValidate]_vars

\* SpecPrivatize: account 1 switches its public post between public and
\* private while the three accounts comment on it and edit and delete
\* their comments.
PrivatizedPostIds == {p.id : p \in {q \in SeedPosts : q.privacy = "public"}}

InitPrivatize == InitStore(SeedPosts, <<>>)

NextPrivatize ==
    \/ \E pk \in PrivatizedPostIds, privacy \in Privacies :
           PostViewSet_update(AccountById(1), pk, [privacy |-> privacy, content |-> Absent])
    \/ \E user \in accounts, pk \in PrivatizedPostIds :
           CommentViewSet_create(user, pk, "t1", 0)
    \/ \E user \in accounts, post_pk \in PrivatizedPostIds, pk \in CommentIds :
           CommentViewSet_update(user, post_pk, pk, "t2")
    \/ \E user \in accounts, post_pk \in PrivatizedPostIds, pk \in CommentIds :
           CommentViewSet_destroy(user, post_pk, pk)

SpecPrivatize == InitPrivatize /\ [][NextPrivatize]_vars

\* ------------------------------------------------------------ properties
\* The read rule of the specification (4.3), stated apart from the handlers.
HiddenFrom(user, post) ==
    post.privacy = "private" /\ post.author # user.id /\ ~user.is_staff

PostsWithId(pk) == {p \in posts : p.id = pk}

\* C1: the list answered to a non-staff principal P holds exactly the posts
\* that are public or authored by P, and so never a private post of someone
\* else; the list answered to a staff principal holds every stored post.
C1_ListExactlyVisible ==
    resp.op = "list" =>
        LET P == AccountById(resp.user) IN
        IF P.is_staff THEN resp.results = posts
        ELSE /\ resp.results = {p \in posts : p.privacy = "public" \/ p.author = P.id}
             /\ \A p \in resp.results : ~(p.privacy = "private" /\ p.author # P.id)

C1_Witness ==
    /\ resp.op = "list"
    /\ ~AccountById(resp.user).is_staff
    /\ resp.results # {}
    /\ \E p \in posts : p.privacy = "private" /\ p.author # resp.user

\* C5: an update or delete of a post the principal can see succeeds iff the
\* principal is its author; any other principal, staff included, is answered
\* 403 and the post table is left as it was; no update or delete succeeds for
\* a principal who is not the author.
C5_WriteOnlyByAuthor ==
    [][\A user \in accounts, pk \in PostIds :
          (resp'.op \in {"update", "destroy"} /\ resp'.user = user.id /\ resp'.post = pk) =>
              /\ resp'.status \in {200, 204} =>
                     \E p \in PostsWithId(pk) : p.author = user.id
              /\ \A p \in PostsWithId(pk) :
                     ~HiddenFrom(user, p) =>
                         /\ p.author = user.id => resp'.status \in {200, 204}
                         /\ p.author # user.id =>
                                /\ resp'.status = 403
                                /\ posts' = posts
                                /\ p \in posts']_vars

C5_Witness ==
    /\ resp.op \in {"update", "destroy"}
    /\ resp.status = 403
    /\ AccountById(resp.user).is_staff
    /\ \E p \in PostsWithId(resp.post) : p.privacy = "private"

\* What a request for a post id that does not exist is answered.
AbsentOutcome(op) ==
    [status |-> 404,
     detail |-> IF op = "comment_create" THEN POST_NOT_FOUND ELSE NO_POST_MATCHES]

\* C2: retrieve, like and comment-create by a non-staff principal on a private
\* post of another principal are answered 404 with the body a non-existent
\* post id gets, and add no Like and no Comment row.
C2_HiddenPostIsNotFound ==
    [][\A user \in accounts, pk \in SeedPostIds :
          (/\ resp'.op \in {"retrieve", "like", "comment_create"}
           /\ resp'.user = user.id /\ resp'.post = pk /\ ~user.is_staff) =>
              /\ (\E p \in PostsWithId(pk) : p.privacy = "private" /\ p.author # user.id) =>
                     /\ resp'.status = 404
                     /\ [status |-> resp'.status, detail |-> resp'.detail] = AbsentOutcome(resp'.op)
                     /\ likes' = likes
                     /\ comments' = comments
              /\ PostsWithId(pk) = {} =>
                     [status |-> resp'.status, detail |-> resp'.detail] = AbsentOutcome(resp'.op)]_vars

C2_Witness ==
    /\ resp.op = "comment_create"
    /\ resp.status = 404
    /\ ~AccountById(resp.user).is_staff
    /\ \E p \in PostsWithId(resp.post) : p.privacy = "private" /\ p.author # resp.user

\* C3: a successful toggle answers liked = TRUE iff the pair was un-liked,
\* flips exactly that pair, and reports the number of Like rows of the post
\* after it, which is never negative and never more than the principals
\* holding a Like on the post; a second toggle of the same pair right after
\* the first answers the opposite (TRUE then FALSE from un-liked) and puts
\* the liked pairs back as they were before the first.
C3_TogglePairwise ==
    [][\A user \in accounts, pk \in SeedPostIds :
          (/\ resp'.op = "like" /\ resp'.status = 200
           /\ resp'.user = user.id /\ resp'.post = pk) =>
              LET pair == <<pk, user.id>> IN
              /\ resp'.liked = (pair \notin LikePairs(likes))
              /\ LikePairs(likes') = IF resp'.liked THEN LikePairs(likes) \cup {pair}
                                     ELSE LikePairs(likes) \ {pair}
              /\ resp'.likes_count = Cardinality({l \in likes' : l.post = pk})
              /\ resp'.likes_count >= 0
              /\ resp'.likes_count <= Cardinality({l.user : l \in {x \in likes' : x.post = pk}})
              /\ (/\ resp.op = "like" /\ resp.status = 200
                  /\ resp.user = user.id /\ resp.post = pk) =>
                     /\ resp'.liked = ~resp.liked
                     /\ resp.liked => ~resp'.liked
                     /\ LikePairs(likes') = resp.pre_pairs]_vars

C3_Witness ==
    /\ resp.op = "like"
    /\ resp.status = 200
    /\ ~resp.liked
    /\ resp.likes_count = 1
    /\ LikePairs(likes) # resp.pre_pairs

\* C4: under every interleaving of like requests there is at most one Like
\* row per (post, user) and no like request fails.
C4_NoDuplicateNoFailure ==
    /\ \A l1, l2 \in likes : (l1.post = l2.post /\ l1.user = l2.user) => l1 = l2
    /\ ~(resp.op = "like" /\ resp.status = 500)

C4_AtMostOneLike ==
    \A l1, l2 \in likes : (l1.post = l2.post /\ l1.user = l2.user) => l1 = l2

\* Validation as the specification states it: the size bound, the allowed
\* content types, and a successful decode for an image.
FilePasses(f) ==
    /\ 0 < f.size /\ f.size <= MEDIA_MAX_SIZE
    /\ \/ settings.MEDIA_ALLOWED_CONTENT_TYPES = {}
       \/ f.content_type \in settings.MEDIA_ALLOWED_CONTENT_TYPES
    /\ IsImageType(f.content_type) => f.decodes

FileFails(f) == ~FilePasses(f)

SeqRange(q) == {q[i] : i \in 1..Len(q)}

\* C6: a batch of N >= 1 files that passed the access check, K of them failing
\* validation, answers N-K created entries and K errors, each in the order of
\* the files, whatever the order of valid and invalid files; the N-K rows are
\* in the Media table after the request and no other row was added.
C6_BatchPartialSuccess ==
    [][(resp'.op = "media_batch" /\ resp'.status \in {201, 207}) =>
          LET files == resp'.req_files
              good == SelectSeq(files, FilePasses)
              bad == SelectSeq(files, FileFails)
          IN
          /\ Len(files) >= 1
          /\ Len(resp'.created) = Len(files) - Len(bad)
          /\ Len(resp'.errors) = Len(bad)
          /\ \A i \in 1..Len(good) : resp'.created[i].file = good[i].name
          /\ \A i \in 1..Len(bad) : resp'.errors[i].filename = bad[i].name
          /\ media' = media \cup SeqRange(resp'.created)
          /\ Cardinality(media') = Cardinality(media) + Len(good)
          /\ \A row \in media' \ media :
                 /\ row.post = resp'.post
                 /\ \E i \in 1..Len(good) : row.file = good[i].name]_vars

C6_Witness ==
    /\ resp.op = "media_batch"
    /\ resp.status = 207
    /\ Len(resp.created) >= 1
    /\ resp.errors[1].filename = resp.req_files[1].name
    /\ SeqRange(resp.created) \subseteq media

\* C7: a batch request that passed the access check is answered 400, adding
\* no Media row, when it carries no file; otherwise 201 iff errors is empty
\* and 207 iff it is not, also when every file failed and created is empty.
C7_BatchStatus ==
    [][(resp'.op = "media_batch" /\ resp'.status # 404) =>
          IF resp'.req_files = <<>>
          THEN resp'.status = 400 /\ media' = media
          ELSE /\ resp'.status \in {201, 207}
               /\ resp'.status = 201 <=> resp'.errors = <<>>
               /\ resp'.status = 207 <=> resp'.errors # <<>>
               /\ (\A i \in 1..Len(resp'.req_files) : FileFails(resp'.req_files[i])) =>
                      resp'.status = 207 /\ resp'.created = <<>> /\ media' = media]_vars

C7_Witness ==
    /\ resp.op = "media_batch"
    /\ resp.status = 207
    /\ resp.created = <<>>
    /\ Len(resp.errors) = Len(resp.req_files)
    /\ Len(resp.req_files) >= 2

\* C8: a successful registration leaves exactly one Account for the
\* answered user and exactly one Profile attached to it, whose display name
\* is the one supplied or else the local part of the email; the supplied
\* password checks against the stored one; the answer carries an access and
\* a refresh token for that Account.
C8_RegistrationCreates ==
    (resp.op = "register" /\ resp.status = 201) =>
        LET mine == {a \in accounts : a.id = resp.user.id}
            req == resp.req
        IN
        /\ Cardinality(mine) = 1
        /\ \A a \in mine :
              /\ a.email = normalize_email(req.email)
              /\ check_password(a, req.password)
              /\ Cardinality({p \in profiles : p.user = a.id}) = 1
              /\ \A p \in profiles :
                    p.user = a.id =>
                        p.display_name = IF req.display_name # Absent
                                         THEN req.display_name
                                         ELSE req.email.local
              /\ resp.tokens.access = [token_type |-> "access", user_id |-> a.id]
              /\ resp.tokens.refresh = [token_type |-> "refresh", user_id |-> a.id]

C8_Witness ==
    /\ resp.op = "register"
    /\ resp.status = 201
    /\ resp.req.display_name = Absent
    /\ resp.user.profile.display_name = resp.req.email.local
    /\ Cardinality(accounts) = 2

\* C9: a registration whose password and confirmation differ, or whose
\* email an existing Account already holds, is answered 400 without tokens
\* and leaves the Account and Profile tables as they were.
EmailHeld(email) == \E a \in accounts : a.email = normalize_email(email)

C9_InvalidRegistrationIs400 ==
    [][(resp'.op = "register"
        /\ (resp'.req.password # resp'.req.password_confirm \/ EmailHeld(resp'.req.email)))
       => /\ resp'.status = 400
          /\ "tokens" \notin DOMAIN resp'
          /\ accounts' = accounts
          /\ profiles' = profiles]_vars

\* C10: resolving a Google identity whose subject id is not linked and
\* whose claimed email equals an existing Account's email answers that
\* Account with created = false, adds exactly one ExternalIdentity row for
\* (google, subject id) and no Account; resolving a subject id that is
\* linked answers the linked Account with created = false and adds no row;
\* no step removes a link or an Account.
Resolves(r) == r.op = "google_login" /\ r.req_info \in GoogleUserInfo
               /\ r.req_info.id # Absent /\ r.req_info.email # NoEmail

LinkedTo(uid) == {sa \in socialAccounts : sa.provider = "google" /\ sa.uid = uid}

Passwords == {"pw1", "pw2", "", "!"}

C11_NewSocialAccount ==
    [][(Resolves(resp') /\ LinkedTo(resp'.req_info.id) = {}
        /\ ~EmailHeld(resp'.req_info.email)) =>
          LET info == resp'.req_info
              new == accounts' \ accounts
              expected == IF info.name # "" THEN info.name
                          ELSE IF info.given_name # "" /\ info.family_name # ""
                          THEN "Ann Lee"
                          ELSE IF info.given_name # "" THEN info.given_name
                          ELSE info.email.local
          IN
          /\ resp'.status = 200
          /\ resp'.created = TRUE
          /\ accounts \subseteq accounts'
          /\ Cardinality(new) = 1
          /\ \A a \in new :
                /\ a.id = resp'.user.id
                /\ a.email = normalize_email(info.email)
                /\ a.password = UNUSABLE_PASSWORD
                /\ \A pw \in Passwords : ~check_password(a, pw)
                /\ profiles' = profiles \cup
                      {[user |-> a.id, display_name |-> expected, bio |-> ""]}
                /\ Cardinality(profiles') = Cardinality(profiles) + 1
                /\ socialAccounts' = socialAccounts \cup
                      {[user |-> a.id, provider |-> "google", uid |-> info.id]}
                /\ Cardinality(socialAccounts') = Cardinality(socialAccounts) + 1]_vars

C11_Witness ==
    /\ resp.op = "google_login"
    /\ resp.status = 200
    /\ resp.created
    /\ resp.req_info.name = ""
    /\ resp.req_info.family_name = "Lee"
    /\ resp.user.profile.display_name = "Ann Lee"
    /\ \E a \in accounts : a.id = resp.user.id /\ a.password = UNUSABLE_PASSWORD

\* A step that answers a request (the clock stands still).
RequestStep == jwt'.now = jwt.now

WellFormedRefresh(tok) == tok \in jwt.issued /\ tok.token_type = "refresh"

\* C12: a logout by an authenticated principal with a well-formed refresh
\* token answers success whatever the token's state; when the token is
\* already revoked or already expired the revocation set is unchanged;
\* a malformed token is an error.
C12_LogoutIdempotent ==
    [][(RequestStep /\ resp'.op = "logout" /\ resp'.status # 401
        /\ resp'.refresh # NoToken) =>
          IF WellFormedRefresh(resp'.refresh)
          THEN /\ resp'.status = 200
               /\ (resp'.refresh.jti \in jwt.blacklisted \/ jwt.now >= resp'.refresh.exp)
                     => jwt'.blacklisted = jwt.blacklisted
          ELSE resp'.status = 400]_vars

\* C13: a refresh with a refresh token whose jti is in the revocation set
\* is answered 401 without an access token, and no step takes a jti out of
\* the revocation set; a refresh with an unexpired refresh token that is
\* not revoked is answered 200 with an access token that authenticates its
\* user.
C13_RevokedNeverRefreshes ==
    [][/\ jwt.blacklisted \subseteq jwt'.blacklisted
       /\ (RequestStep /\ resp'.op = "refresh" /\ WellFormedRefresh(resp'.refresh)) =>
            LET tok == resp'.refresh IN
            /\ tok.jti \in jwt.blacklisted =>
                  /\ resp'.status = 401
                  /\ "access" \notin DOMAIN resp'
                  /\ jwt'.issued = jwt.issued
            /\ (tok.jti \notin jwt.blacklisted /\ jwt.now < tok.exp) =>
                  /\ resp'.status = 200
                  /\ resp'.access \in jwt'.issued
                  /\ resp'.access.token_type = "access"
                  /\ resp'.access.user_id = tok.user_id
                  /\ resp'.access.exp > jwt.now]_vars

C13_Witness ==
    /\ resp.op = "refresh"
    /\ resp.status = 401
    /\ WellFormedRefresh(resp.refresh)
    /\ jwt.now < resp.refresh.exp
    /\ resp.refresh.jti \in jwt.blacklisted
    /\ ~settings.ROTATE_REFRESH_TOKENS

\* C16: a password login whose email belongs to no Account, or whose
\* password does not check against the Account of that email, is answered
\* 401 with one and the same body in both cases, carrying no tokens and no
\* user summary, and issues no token.
LoginMismatch(req) ==
    \/ ~\E a \in accounts : a.email = req.email
    \/ \E a \in accounts : a.email = req.email /\ a.password # [hash_of |-> req.password]

C16_LoginFailureUniform ==
    [][(RequestStep /\ resp'.op = "login" /\ LoginMismatch(resp'.req)) =>
          /\ resp' = [op |-> "login", status |-> 401,
                      detail |-> "No active account found with the given credentials",
                      req |-> resp'.req]
          /\ jwt' = jwt]_vars

C16_Witness ==
    /\ resp.op = "login"
    /\ resp.status = 401
    /\ \E a \in accounts : a.email = resp.req.email
    /\ jwt.issued # {}

C19_CommentWriteOnlyByAuthor ==
    [][\A user \in accounts, c \in comments :
          (/\ resp'.op \in {"comment_update", "comment_destroy"}
           /\ resp'.user = user.id /\ resp'.comment = c.id) =>
              /\ c.author # user.id =>
                    /\ resp'.status \in {403, 404}
                    /\ comments' = comments
              /\ (c.author = user.id /\ c.post = resp'.post) =>
                    /\ resp'.status \in {200, 204}
                    /\ resp'.op = "comment_destroy" => c \notin comments'
                    /\ resp'.op = "comment_update" =>
                          \E d \in comments' : d.id = c.id /\ d = resp'.body]_vars

C19_Witness ==
    /\ resp.op = "comment_destroy"
    /\ resp.status = 403
    /\ \E c \in comments, p \in posts :
          /\ c.id = resp.comment
          /\ c.post = p.id
          /\ p.author = resp.user
          /\ c.author # resp.user

\* C17: retrieving or deleting a Media row succeeds exactly for the author
\* of its post and for its uploader, under the post it belongs to; every
\* other principal is answered 404 and the row remains; a retrieve of an id
\* that has no row is answered 404, and ids of deleted rows are never given
\* to new rows.
C17_MediaDetailOwnerOrUploader ==
    [][/\ \A m \in media' \ media : m.id >= nextMediaId /\ m.id < nextMediaId'
       /\ nextMediaId' >= nextMediaId
       /\ resp'.op \in {"media_get", "media_delete"} =>
            /\ (\A m \in media : m.id # resp'.media) =>
                  resp'.status = 404 /\ media' = media
            /\ \A m \in media :
                  m.id = resp'.media =>
                     LET allowed ==
                            /\ m.post = resp'.post
                            /\ \/ m.uploaded_by = resp'.user
                               \/ \E p \in posts : p.id = m.post /\ p.author = resp'.user
                     IN
                     IF ~allowed THEN resp'.status = 404 /\ media' = media
                     ELSE IF resp'.op = "media_get"
                     THEN resp'.status = 200 /\ resp'.body = m /\ media' = media
                     ELSE resp'.status = 204 /\ media' = media \ {m}]_vars

C17_Witness ==
    /\ resp.op = "media_get"
    /\ resp.status = 404
    /\ resp.media < nextMediaId
    /\ \A m \in media : m.id # resp.media
    /\ \E p \in posts : p.id = resp.post /\ p.author = resp.user

\* C18: a Google login without access_token is answered 400; one whose
\* token Google rejects, or whose call to Google times out or fails, is
\* answered 401; in each of these cases no Account, Profile or
\* ExternalIdentity row is written and the answer carries no tokens.
C18_SocialLoginFailures ==
    [][(resp'.op = "google_login"
        /\ (~resp'.req.has_token \/ resp'.req.provider \in ProviderFailures)) =>
          /\ resp'.status = IF ~resp'.req.has_token THEN 400 ELSE 401
          /\ "tokens" \notin DOMAIN resp'
          /\ "user" \notin DOMAIN resp'
          /\ accounts' = accounts
          /\ profiles' = profiles
          /\ socialAccounts' = socialAccounts
          /\ jwt' = jwt]_vars

C18_Witness ==
    /\ resp.op = "google_login"
    /\ resp.status = 401
    /\ resp.req.provider = "timeout"
    /\ accounts # {}

\* C20: in every state reached by registrations and Google logins that
\* interleave statement by statement, no two Account rows hold the same
\* email.
C20_EmailUnique ==
    \A a \in accounts, b \in accounts : a.email = b.email => a = b

C20_Witness ==
    /\ Cardinality(accounts) = 1
    /\ \E r \in AuthReqIds, q \in AuthReqIds :
          /\ authReqs[r].pc = "done"
          /\ authReqs[q].pc = "done"
          /\ authReqs[r].answer.op = "register"
          /\ authReqs[r].answer.status = 500
          /\ authReqs[q].answer.op = "google_login"
          /\ authReqs[q].answer.status = 200
          /\ authReqs[q].answer.created

\* The bearer tokens of the claim: none, a malformed one, an expired access
\* token, a refresh token.
RejectedBearer(tok) ==
    \/ tok = NoToken
    \/ tok = MalformedToken
    \/ tok.token_type = "access" /\ jwt.now >= tok.exp
    \/ tok.token_type = "refresh"

\* C14: every request to a protected operation (user detail, profile update,
\* post list, create, retrieve, update and delete, like, comment, media
\* upload, batch and detail, logout) whose bearer token is missing,
\* malformed, an expired access token or a refresh token is answered 401
\* and changes no table and no token record.
C14_ProtectedRejectsBadBearer ==
    [][\A bearer \in Presented :
          (RejectedBearer(bearer) /\ ProtectedRequest(bearer))
             => /\ resp'.status = 401
                /\ UNCHANGED StoreVars
                /\ UNCHANGED jwt]_vars

C14_Witness ==
    /\ resp.op = "create"
    /\ resp.status = 401
    /\ resp.bearer \in jwt.issued
    /\ resp.bearer.token_type = "refresh"
    /\ jwt.now < resp.bearer.exp
    /\ profiles # SeedProfiles

\* C21: resolving a Google identity whose (provider, subject id) is already
\* linked answers the linked Account with created = false and writes
\* nothing, whatever the claimed email: also when it differs from that
\* Account's email and when a different Account holds it.
C21_FirstMatchWins ==
    [][(Resolves(resp') /\ LinkedTo(resp'.req_info.id) # {}) =>
          /\ resp'.status = 200
          /\ resp'.created = FALSE
          /\ \E a \in accounts :
                /\ LinkedTo(resp'.req_info.id) =
                      {[user |-> a.id, provider |-> "google", uid |-> resp'.req_info.id]}
                /\ resp'.user.id = a.id
                /\ resp'.user.email = a.email
          /\ UNCHANGED <<accounts, profiles, socialAccounts, nextUserId>>]_vars

C21_Witness ==
    /\ resp.op = "google_login"
    /\ resp.status = 200
    /\ resp.was_linked
    /\ resp.user.email # resp.req_info.email
    /\ \E b \in accounts : b.email = resp.req_info.email /\ b.id # resp.user.id
    /\ LinkedTo(resp.req_info.id) =
          {[user |-> resp.user.id, provider |-> "google", uid |-> resp.req_info.id]}

\* C22: when two Google logins for the same email have both been answered,
\* both were answered 200 with the same Account, and exactly one Account
\* holds that email (the login that hit the uniqueness violation retried).
SocialAnswered(r) ==
    /\ authReqs[r].pc = "done"
    /\ authReqs[r].answer.op = "google_login"

C22_ConcurrentSocialBothSucceed ==
    \A r \in AuthReqIds, q \in AuthReqIds :
        (/\ r # q
         /\ SocialAnswered(r)
         /\ SocialAnswered(q)
         /\ authReqs[r].answer.req_info.email = authReqs[q].answer.req_info.email) =>
            /\ authReqs[r].answer.status = 200
            /\ authReqs[q].answer.status = 200
            /\ authReqs[r].answer.user.id = authReqs[q].answer.user.id
            /\ Cardinality({a \in accounts :
                              a.email = normalize_email(authReqs[r].answer.req_info.email)}) = 1

\* C23: whenever no registration or Google login is in flight, every
\* Account has exactly one Profile, every Account without a usable password
\* has at least one ExternalIdentity, and a request answered with a failure
\* has left no Account behind.
NoneInFlight == \A r \in AuthReqIds : authReqs[r].pc \in {"idle", "done"}

C23_CreationAtomic ==
    NoneInFlight =>
        /\ \A a \in accounts :
              /\ Cardinality({p \in profiles : p.user = a.id}) = 1
              /\ a.password = UNUSABLE_PASSWORD =>
                    \E sa \in socialAccounts : sa.user = a.id
        /\ (\A r \in AuthReqIds :
               authReqs[r].pc = "done" => authReqs[r].answer.status \notin {200, 201})
              => accounts = {}

\* C24: a Google login whose userinfo answer has no subject id, no email,
\* or an email that Google has not verified is answered with a failure that
\* carries no user, and the Account, Profile and ExternalIdentity tables
\* are unchanged.
IncompleteProviderData(info) ==
    info.id = Absent \/ info.email = NoEmail \/ ~info.verified_email

C24_IncompleteProviderData ==
    [][(/\ resp'.op = "google_login"
        /\ "verified_email" \in DOMAIN resp'.req_info
        /\ IncompleteProviderData(resp'.req_info)) =>
          /\ resp'.status = 400
          /\ "user" \notin DOMAIN resp'
          /\ UNCHANGED <<accounts, profiles, socialAccounts, nextUserId>>]_vars

\* C25: creating a comment or uploading media (single or batch) on an
\* existing post is answered 404 exactly when the post's read rule hides
\* the post from the requester (private, not the author, not staff); so a
\* requester whose retrieve of the post succeeds is not answered 404.
C25_DependentFollowsReadRule ==
    [][\A user \in accounts, pk \in SeedPostIds :
          (/\ resp'.op \in {"comment_create", "media_upload", "media_batch"}
           /\ resp'.user = user.id
           /\ resp'.post = pk
           /\ PostsWithId(pk) # {}) =>
              (resp'.status = 404 <=> \E p \in PostsWithId(pk) : HiddenFrom(user, p))]_vars

\* C26: validate_media_file accepts a file iff its size is above 0 and at
\* most MEDIA_MAX_SIZE, its content type is in the allowed set (any type
\* when the set is empty) and, for an image type, it decodes; a single
\* upload of an accepted file answers 201 and adds one Media row with the
\* file's size and content type, and a single upload of any other file
\* answers 400 and adds no row.
AcceptableFile(f) ==
    /\ 0 < f.size
    /\ f.size <= settings.MEDIA_MAX_SIZE
    /\ settings.MEDIA_ALLOWED_CONTENT_TYPES = {}
          \/ f.content_type \in settings.MEDIA_ALLOWED_CONTENT_TYPES
    /\ IsImageType(f.content_type) => f.decodes

C26_ValidateMediaFile ==
    [][(resp'.op = "media_upload" /\ resp'.status # 404) =>
          LET f == resp'.req_file IN
          /\ validate_media_file(f).ok <=> AcceptableFile(f)
          /\ AcceptableFile(f) =>
                /\ resp'.status = 201
                /\ Cardinality(media') = Cardinality(media) + 1
                /\ \A row \in media' \ media :
                      row.size = f.size /\ row.content_type = f.content_type
          /\ ~AcceptableFile(f) =>
                /\ resp'.status = 400
                /\ media' = media
                /\ nextMediaId' = nextMediaId]_vars

C26_Witness ==
    /\ resp.op = "media_upload"
    /\ resp.status = 400
    /\ settings.MEDIA_ALLOWED_CONTENT_TYPES = {}
    /\ resp.req_file.content_type = "image/gif"
    /\ resp.req_file.size = settings.MEDIA_MAX_SIZE
    /\ ~resp.req_file.decodes
    /\ \E row \in media : row.size = settings.MEDIA_MAX_SIZE /\ row.content_type = ""

\* C27: when every like request has been answered with a liked value, the
\* answers and the final state are those of some serial order of the
\* toggles of each (post, user) from the un-liked start: of n toggles,
\* the liked = true answers number n minus n div 2 (true, false, true, ...),
\* and the pair holds a Like row iff n is odd.
Toggled(post, user) ==
    {r \in LikeReqIds : /\ likeReqs[r].pc = "done"
                        /\ "liked" \in DOMAIN likeReqs[r]
                        /\ likeReqs[r].post = post
                        /\ likeReqs[r].user = user}

C27_TogglesSerializable ==
    (\A r \in LikeReqIds : likeReqs[r] = Idle \/ (likeReqs[r].pc = "done"
                                                  /\ "liked" \in DOMAIN likeReqs[r])) =>
        \A pk \in SeedPostIds, user \in LikeUsers :
            LET n == Cardinality(Toggled(pk, user.id))
                t == Cardinality({r \in Toggled(pk, user.id) : likeReqs[r].liked})
            IN
            /\ t = n - (n \div 2)
            /\ (Like_get(likes, pk, user.id) # {}) <=> (n % 2 = 1)

C29_PrivatizedHidesDependents ==
    [][\A user \in accounts, pk \in SeedPostIds :
          (/\ resp'.op \in {"comment_create", "comment_update", "comment_destroy"}
           /\ resp'.user = user.id
           /\ resp'.post = pk
           /\ \E p \in PostsWithId(pk) : HiddenFrom(user, p)) =>
              /\ resp'.status = 404
              /\ comments' = comments]_vars

\* C30: a logout revokes the refresh token it is given whoever the token
\* belongs to: when the requester is authenticated and the token is an
\* unexpired, unrevoked refresh token of any Account, the answer is 200,
\* the token's jti is blacklisted, and every later refresh with that token
\* is refused.
C30_LogoutRevokesAnySubject ==
    [][/\ (RequestStep /\ resp'.op = "logout" /\ resp'.status # 401
           /\ WellFormedRefresh(resp'.refresh)
           /\ jwt.now < resp'.refresh.exp
           /\ resp'.refresh.jti \notin jwt.blacklisted) =>
              /\ resp'.status = 200
              /\ resp'.refresh.jti \in jwt'.blacklisted
       /\ jwt.blacklisted \subseteq jwt'.blacklisted
       /\ (RequestStep /\ resp'.op = "refresh" /\ WellFormedRefresh(resp'.refresh)
           /\ resp'.refresh.jti \in jwt.blacklisted) =>
              /\ resp'.status = 401
              /\ jwt' = jwt]_vars

C30_Witness ==
    /\ resp.op = "logout"
    /\ resp.status = 200
    /\ resp.was = TOKEN_OK
    /\ resp.requester # resp.refresh.user_id
    /\ resp.refresh.jti \in jwt.blacklisted
    /\ jwt.now < resp.refresh.exp
    /\ Token_init(resp.refresh, "refresh") = "Token is blacklisted"

====
